---- MODULE Spec2Model ----
(***************************************************************************)
(* Model of the maowbot VR overlay wrapper (maowbot-overlay/src):          *)
(*   openvr_wrapper_gl.cpp    OpenGL backend (HUD, Dashboard, Keyboard)    *)
(*   openvr_wrapper.cpp       Direct3D backend (HUD, Keyboard)             *)
(*   openvr_wrapper_stub.cpp  headless stub backend                        *)
(* The process-wide statics of the wrapper are the variables; every        *)
(* extern "C" entry point is one action (or, when it only reads, one       *)
(* operator over the state).  The components are checked under separate    *)
(* specifications that share the variables:                                *)
(*   SpecCtrl     controller tracking and laser queries                    *)
(*   SpecFrame    render targets and texture submission                    *)
(*   SpecMailbox  dashboard-state mailbox                                  *)
(*   SpecChat     chat transcript and sent-message flag                    *)
(***************************************************************************)
EXTENDS Integers, Sequences, FiniteSets, TLC

VARIABLES
    \* ---- controller state (openvr_wrapper_gl.cpp:23-34)
    g_controllers,      \* [0..1 -> ControllerState]
    last_tick,          \* history: the input state each slot held at the end of the preceding tick
    \* ---- overlay handles and render targets (openvr_wrapper_gl.cpp:15-51)
    g_handle,                \* HUD overlay handle
    g_dashboard_handle,      \* Dashboard overlay handle
    g_current_tex,           \* HUD write index
    g_dashboard_current_tex, \* Dashboard write index
    g_keyboard_current_tex,  \* Keyboard write index
    rt_texture,         \* compositor: per surface, the target index it accepted last (NoTarget: none)
    used,               \* history: per surface, the indices bound by the successive render passes
    last_verdict,       \* history: per surface, the compositor's verdict on the latest submission
    last_ret,           \* history: per surface, what the latest render call gave its caller
    hover,              \* history: the pointer of the latest keyboard pass and the keys it highlighted
    kb_handle,          \* history: the handle the latest vr_keyboard_render call was given
    \* ---- dashboard-state mailbox (openvr_wrapper_gl.cpp:86-103, 718-719)
    g_dashboard_state,         \* [show_settings, current_tab]
    g_dashboard_state_changed, \* the dirty flag
    g_overlay_settings,        \* OverlaySettingsFFI, as the party that wrote it last
    current_tab,               \* render_settings_window's static current_tab
    show_tabs,                 \* render_settings_window's static show_tabs
    mb_last,            \* history: the latest mailbox operation and what it returned
    mb_prev,            \* history: the operation before it
    changes,            \* history: state changes made since the latest poll that had a destination
    last_change,        \* history: the stored state as the latest state change left it
    \* ---- the mailbox driven from two host threads (openvr_wrapper_gl.cpp:1108-1128)
    mutex,              \* whether the host wraps the two mailbox calls in one mutex
    lock,               \* who holds that mutex: "free", "update" or "poll"
    update_pc,          \* where the thread in imgui_update_dashboard_state stands
    update_arg,         \* *state of the update in progress
    poll_pc,            \* where the thread in imgui_get_dashboard_state stands
    updates,            \* history: updates begun so far
    stored_seq,         \* history: which update wrote the stored state
    copied_seq,         \* history: which update's state the poll in progress copied
    polled_seq,         \* history: which update's state the latest poll that returned true returned
    \* ---- chat transcript and input box (openvr_wrapper_gl.cpp:70-72)
    backend,            \* which of the three source files is linked: "d3d", "gl" or "stub"
    g_chat_messages,    \* the stored transcript
    g_input_buffer,     \* the input box's text
    g_message_sent,     \* the message-ready flag
    chat_last,          \* history: the latest chat operation and what it returned
    submits,            \* history: non-empty submits since the latest poll that returned true
    submitted,          \* history: the text in the box at the latest non-empty submit
    g_input_focused,       \* whether the input box had the focus in the latest pass
    g_input_just_focused,  \* the input-just-focused flag
    passes,             \* history: the box's focus at the latest read, then in each pass since
    focus_last,         \* history: the latest focus operation and what it returned
    \* ---- laser decals and haptics (openvr_wrapper_gl.cpp:75-80, 579-584, 952-981)
    g_laser_states,     \* [0..1 -> LaserPointerState]
    present,            \* history: per slot, whether the latest tick enumerated a connected device for it
    reported,           \* history: per slot, whether a laser query answered hit since the latest tick
    decals,             \* history: per slot, whether a HUD pass drew its decal since the latest tick
    \* ---- initialisation (openvr_wrapper_gl.cpp:18-20, 38-54, 160-169, 300-331, 605-658)
    g_vr,               \* whether g_vro, g_vrs and g_vrc are set
    g_imgui_ctx,        \* whether g_imgui_ctx is set
    g_keyboard_imgui_ctx, \* whether g_keyboard_imgui_ctx is set
    complete,           \* per surface, how many of its render targets are complete
    display_size,       \* io.DisplaySize of the UI context the HUD and the dashboard share
    boot,               \* history: outcome of each initialisation call
    fault,              \* "none", or the undefined behaviour the process ran into
    \* ---- overlay lifecycle in the runtime (openvr_wrapper_gl.cpp:140-150, 171-215, 241-245)
    rt_overlay,         \* per handle, the runtime's record of the overlay
    rt_misuse,          \* history: the latest runtime call that named a destroyed overlay
    life_last,          \* history: the latest lifecycle call
    create_last,        \* history: what the latest vr_create_overlay returned and created
    \* ---- pointer (openvr_wrapper_gl.cpp:55-57, 673-682, 989-992, 1027-1065)
    g_mouse_x, g_mouse_y, g_mouse_down,
    drain_pc,           \* where a dashboard pass followed step by step stands: "idle" or "polling"
    pos_src,            \* history: who wrote g_mouse_x / g_mouse_y last
    events,             \* the runtime's event queue of the dashboard overlay
    ptr_last            \* history: the latest pointer operation

ctrlVars == <<g_controllers, last_tick>>

frameVars == <<g_handle, g_dashboard_handle, g_current_tex, g_dashboard_current_tex,
               g_keyboard_current_tex, rt_texture, used, last_verdict,
               last_ret, hover, kb_handle>>

threadVars == <<mutex, lock, update_pc, update_arg, poll_pc, updates,
                stored_seq, copied_seq, polled_seq>>

mailboxVars == <<g_dashboard_state, g_dashboard_state_changed, g_overlay_settings,
                 current_tab, show_tabs, mb_last, mb_prev, changes, last_change,
                 threadVars>>

focusVars == <<g_input_focused, g_input_just_focused, passes, focus_last>>

chatVars == <<backend, g_chat_messages, g_input_buffer, g_message_sent,
              chat_last, submits, submitted, focusVars>>

laserVars == <<g_laser_states, present, reported, decals>>

bootVars == <<g_vr, g_imgui_ctx, g_keyboard_imgui_ctx, complete, display_size, boot,
              fault>>

lifeVars == <<rt_overlay, rt_misuse, life_last, create_last>>

pointerVars == <<g_mouse_x, g_mouse_y, g_mouse_down, pos_src, events, ptr_last,
                 drain_pc>>

vars == <<ctrlVars, frameVars, mailboxVars, chatVars, laserVars,
          bootVars, lifeVars, pointerVars>>

----------------------------------------------------------------------------
(* Controller tracking: vr_update_controllers and the slot getters.        *)

\* Number of tracked-device indices the runtime enumerates (k_unMaxTrackedDeviceCount
\* in OpenVR; bounded here).
MaxDevices == 2

\* k_unTrackedDeviceIndexInvalid
DeviceIndexInvalid == -1

\* k_ulOverlayHandleInvalid
OverlayHandleInvalid == 0

\* Trigger axis values in tenths of the full range; the threshold is 0.5.
TriggerThreshold == 5

AxisValues == {0, 6}

Slots == {0, 1}

\* VRControllerState_t reduced to the two fields the wrapper reads:
\* rAxis[1].x (trigger) and the ApplicationMenu bit of ulButtonPressed.
\* TriggerInputs: the trigger axis takes a value on each side of the
\* threshold while the menu bit stays clear.
TriggerInputs == [axis : AxisValues, menu : {FALSE}]

ZeroInput == [axis |-> 0, menu |-> FALSE]

\* What the runtime reports for one tracked-device index in one tick.
NotController == [class |-> "Other", role |-> "Invalid", connected |-> FALSE,
                  poseValid |-> FALSE, input |-> ZeroInput]

InvalidRole == [class |-> "Controller", role |-> "Invalid", connected |-> FALSE,
                poseValid |-> FALSE, input |-> ZeroInput]

DeviceReports(Inputs) ==
    {NotController, InvalidRole} \cup
    [class : {"Controller"}, role : {"LeftHand", "RightHand", "OptOut"},
     connected : BOOLEAN, poseValid : BOOLEAN, input : Inputs]

\* struct ControllerState after static initialisation.
InitController ==
    [connected |-> FALSE, device_index |-> DeviceIndexInvalid,
     state |-> ZeroInput, prev_state |-> ZeroInput,
     has_pose |-> FALSE,
     trigger_pressed |-> FALSE, trigger_released |-> FALSE]

IsPressed(st) == st.axis > TriggerThreshold

\* A release flag raised on any change of the thresholded trigger.
ReleasedEdgeOnChange(was_pressed, is_pressed) == was_pressed # is_pressed

\* trigger_released / trigger_pressed as assigned at the end of one loop
\* iteration.
ReleasedEdge(was_pressed, is_pressed) == was_pressed /\ ~is_pressed

PressedEdge(was_pressed, is_pressed) == ~was_pressed /\ is_pressed

\* The body of the for loop for device index i with report r.
UpdateDevice(ctrls, i, r) ==
    IF r.class # "Controller" THEN ctrls
    ELSE IF r.role = "Invalid" THEN ctrls
    ELSE
      LET idx == IF r.role = "LeftHand" THEN 0 ELSE 1
          c   == ctrls[idx]
          was_pressed == IsPressed(c.state)
          is_pressed  == IsPressed(r.input)
      IN [ctrls EXCEPT ![idx] =
            [connected |-> r.connected,
             device_index |-> i,
             state |-> r.input,
             prev_state |-> c.state,
             has_pose |-> r.poseValid,
             trigger_pressed |-> PressedEdge(was_pressed, is_pressed),
             trigger_released |-> ReleasedEdge(was_pressed, is_pressed)]]

\* Whether the reports of one tick hold a connected controller whose role
\* maps to slot s.
Present(reports, s) ==
    \E i \in DOMAIN reports :
        /\ reports[i].class = "Controller"
        /\ reports[i].role # "Invalid"
        /\ (IF reports[i].role = "LeftHand" THEN 0 ELSE 1) = s
        /\ reports[i].connected

RECURSIVE UpdateLoop(_, _, _)
UpdateLoop(ctrls, reports, i) ==
    IF i >= MaxDevices THEN ctrls
    ELSE UpdateLoop(UpdateDevice(ctrls, i, reports[i]), reports, i + 1)

\* extern "C" void vr_update_controllers(), the runtime's report for each
\* device index drawn from Reports.
UpdateFrom(Reports) ==
    IF g_vr
    THEN /\ \E reports \in [0..(MaxDevices - 1) -> Reports] :
              /\ g_controllers' = UpdateLoop(g_controllers, reports, 0)
              /\ present' = [s \in Slots |-> Present(reports, s)]
         /\ last_tick' = [s \in Slots |-> g_controllers[s].state]
         /\ reported' = [s \in Slots |-> FALSE]
         /\ decals' = [s \in Slots |-> FALSE]
         /\ UNCHANGED <<g_laser_states, frameVars, mailboxVars, chatVars,
                        bootVars, lifeVars, pointerVars>>
    ELSE \* g_vrc->GetLastPoses(...) through the null g_vrc
         /\ fault' = "null_interface"
         /\ UNCHANGED <<ctrlVars, laserVars, frameVars, mailboxVars, chatVars,
                        g_vr, g_imgui_ctx, g_keyboard_imgui_ctx, complete, display_size, boot,
                        lifeVars, pointerVars>>

\* vr_update_controllers() with every report over the inputs Inputs.
UpdateControllers(Inputs) == UpdateFrom(DeviceReports(Inputs))

vr_update_controllers == UpdateControllers(TriggerInputs)

\* Controller states with the trigger released and the menu bit either way.
MenuInputs == [axis : {0}, menu : BOOLEAN]

\* Reports of left and right controllers over MenuInputs, or nothing at a
\* device index.
MenuReports ==
    {NotController} \cup
    [class : {"Controller"}, role : {"LeftHand", "RightHand"},
     connected : BOOLEAN, poseValid : {TRUE}, input : MenuInputs]

\* vr_update_controllers while the user works the menu button.
vr_update_controllers_menu == UpdateFrom(MenuReports)

InRange(controller_idx) == ~(controller_idx < 0 \/ controller_idx > 1)

vr_get_controller_connected(controller_idx) ==
    IF ~InRange(controller_idx) THEN FALSE
    ELSE g_controllers[controller_idx].connected

vr_get_controller_trigger_value(controller_idx) ==
    IF ~InRange(controller_idx) THEN 0
    ELSE IF ~g_controllers[controller_idx].connected THEN 0
    ELSE g_controllers[controller_idx].state.axis

vr_get_controller_trigger_pressed(controller_idx) ==
    IF ~InRange(controller_idx) THEN FALSE
    ELSE g_controllers[controller_idx].trigger_pressed

vr_get_controller_trigger_released(controller_idx) ==
    IF ~InRange(controller_idx) THEN FALSE
    ELSE g_controllers[controller_idx].trigger_released

vr_get_controller_menu_pressed(controller_idx) ==
    IF ~InRange(controller_idx) THEN FALSE
    ELSE IF ~g_controllers[controller_idx].connected THEN FALSE
    ELSE LET was_pressed == g_controllers[controller_idx].prev_state.menu
             is_pressed  == g_controllers[controller_idx].state.menu
         IN ~was_pressed /\ is_pressed

\* LaserHit {false, 0, 0, FLT_MAX}; "invoked" records whether
\* IVROverlay::ComputeOverlayIntersection was called.
NoHit == [hit |-> FALSE, distance |-> "FLT_MAX", invoked |-> FALSE]

\* The laser query without its has_pose guard.
LaserIgnoringPose(controller_idx, handle, rt_hit) ==
    IF ~InRange(controller_idx) THEN NoHit
    ELSE IF ~g_controllers[controller_idx].connected THEN NoHit
    ELSE IF handle = OverlayHandleInvalid THEN NoHit
    ELSE IF rt_hit
         THEN [hit |-> TRUE, distance |-> "fDistance", invoked |-> TRUE]
         ELSE [NoHit EXCEPT !.invoked = TRUE]

\* extern "C" LaserHit vr_test_laser_intersection(controller_idx, handle);
\* rt_hit is what ComputeOverlayIntersection answers when it is asked.
vr_test_laser_intersection(controller_idx, handle, rt_hit) ==
    IF ~InRange(controller_idx) THEN NoHit
    ELSE IF ~g_controllers[controller_idx].connected THEN NoHit
    ELSE IF ~g_controllers[controller_idx].has_pose THEN NoHit
    ELSE IF handle = OverlayHandleInvalid THEN NoHit
    ELSE IF rt_hit
         THEN [hit |-> TRUE, distance |-> "fDistance", invoked |-> TRUE]
         ELSE [NoHit EXCEPT !.invoked = TRUE]

InitCtrlVars ==
    /\ g_controllers = [s \in Slots |-> InitController]
    /\ last_tick = [s \in Slots |-> ZeroInput]

----------------------------------------------------------------------------
(* Render targets and texture submission (OpenGL backend; the Direct3D     *)
(* backend's imgui_render_and_submit and vr_keyboard_render rotate their   *)
(* index the same way).                                                    *)

Surfaces == {"HUD", "Dashboard", "Keyboard"}

\* Render passes followed per surface.
MaxRenders == 4

\* g_framebuffers[2] / g_textures[2]: two targets per surface.
NumTargets == 2

\* rt_texture before the compositor has accepted any target of the surface.
NoTarget == -1

\* io.DisplaySize before imgui_init has created the UI context.
NoSize == [w |-> 0, h |-> 0]

\* const int width = 1024; const int height = 768; the HUD's targets, the
\* size imgui_init gives io.DisplaySize and the size the host passes to
\* imgui_render_hud.
HudSize == [w |-> 1024, h |-> 768]

\* const int dashboard_width = 1280; const int dashboard_height = 960; the
\* dashboard's targets and the size the host passes to imgui_render_dashboard.
DashboardSize == [w |-> 1280, h |-> 960]

\* The size a HUD pass called with (width, height) = passed lays its UI out
\* with: imgui_render_hud gives the size to glViewport and leaves
\* io.DisplaySize as it finds it.
HudLayout(size, passed) == size

\* io.DisplaySize = ImVec2((float)width, (float)height) in
\* imgui_render_dashboard.
DashboardLayout(size, passed) == passed

\* Handles the runtime hands out for the two overlays of vr_create_overlays
\* and for the keyboard overlay the host creates with vr_create_overlay_raw.
HudHandle == 1

DashboardHandle == 2

KeyboardHandle == 3

WriteIndex(s) ==
    CASE s = "HUD" -> g_current_tex
      [] s = "Dashboard" -> g_dashboard_current_tex
      [] s = "Keyboard" -> g_keyboard_current_tex

\* IVROverlay::SetOverlayTexture: an invalid handle is always refused, any
\* other submission is accepted or refused as the compositor decides.
SetOverlayTextureVerdicts(handle) ==
    IF handle = OverlayHandleInvalid THEN {FALSE} ELSE BOOLEAN

\* A swap that advances only after an accepted submission.
NextIndexOnSuccess(cur, accepted) == IF accepted THEN (cur + 1) % NumTargets ELSE cur

\* A swap that never advances.
NextIndexStuck(cur, accepted) == cur

\* A swap that counts up without wrapping.
NextIndexUnwrapped(cur, accepted) == cur + 1

\* "Swap buffers": g_current_tex = (g_current_tex + 1) % 2, whatever err is.
NextIndex(cur, accepted) == (cur + 1) % NumTargets

\* What a render call leaves for its caller: whether it returned, the value
\* it returned, and what the compositor said in this call.  NoReturn stands
\* for no call yet and for a call that did not return.
NoReturn ==
    [returned |-> FALSE, value |-> FALSE, verdict |-> "none",
     bound |-> NoTarget, drawn |-> NoTarget, handed |-> NoTarget]

\* The early "return false" of vr_keyboard_render on the invalid handle.
RefusedHandle ==
    [returned |-> TRUE, value |-> FALSE, verdict |-> "none",
     bound |-> NoTarget, drawn |-> NoTarget, handed |-> NoTarget]

\* A render call that answers true whatever the compositor said.
ReturnsTrue(accepted) == TRUE

\* return err == VROverlayError_None;
ReturnValue(accepted) == accepted

Returned(accepted) ==
    [returned |-> TRUE, value |-> ReturnValue(accepted),
     verdict |-> IF accepted THEN "accepted" ELSE "rejected",
     bound |-> NoTarget, drawn |-> NoTarget, handed |-> NoTarget]

\* A pass that swaps before it fills in the texture for the compositor.
IndexAfterSwap(cur) == (cur + 1) % NumTargets

\* The index a pass reads when it fills in vr_tex.handle: the swap comes
\* after SetOverlayTexture, so it is the index the pass started with.
IndexAtSubmit(cur) == cur

\* The targets of one pass that started with write index idx: the
\* framebuffer (render target view) bound and cleared, the one the draw data
\* goes into, and the texture put into vr_tex.handle.
PassReturn(idx, accepted) ==
    [Returned(accepted) EXCEPT !.bound = idx, !.drawn = idx,
                               !.handed = IndexAtSubmit(idx)]

\* What one pass leaves behind for surface s: the pass bound, cleared and
\* drew into target idx and handed texture idx to the compositor.
Submitted(s, idx, accepted) ==
    /\ used' = [used EXCEPT ![s] = Append(@, idx)]
    /\ rt_texture' = [rt_texture EXCEPT ![s] = IF accepted THEN IndexAtSubmit(idx) ELSE @]
    /\ last_verdict' = [last_verdict EXCEPT ![s] = IF accepted THEN "accepted" ELSE "rejected"]
    /\ last_ret' = [last_ret EXCEPT ![s] = PassReturn(idx, accepted)]

\* ---- the runtime's view of the overlays ----

Overlays == {HudHandle, DashboardHandle}

NoMisuse == [call |-> "none", handle |-> OverlayHandleInvalid]

\* rt_overlay after the runtime received call ("show", "hide", "destroy",
\* "texture") for handle h: only a live overlay changes.
RtOverlayAfter(ov, call, h) ==
    IF h \notin Overlays THEN ov
    ELSE IF ov[h] \notin {"shown", "hidden"} THEN ov
    ELSE [ov EXCEPT ![h] = CASE call = "show" -> "shown"
                              [] call = "hide" -> "hidden"
                              [] call = "destroy" -> "destroyed"
                              [] OTHER -> @]

\* rt_misuse after the same call: a call naming a destroyed overlay is
\* remembered.
MisuseAfter(mis, ov, call, h) ==
    IF h \in Overlays /\ ov[h] = "destroyed"
    THEN [call |-> call, handle |-> h]
    ELSE mis

\* ---- pointer state and the dashboard overlay's events ----

MaxEvents == 2

\* Positions carried by mouse-move events, and the one the host injects.
EventPoints == {[x |-> 1, y |-> 2], [x |-> 3, y |-> 4]}

InjectPoints == {[x |-> 5, y |-> 6]}

\* VREvent_t as read by the pump: eventType, data.mouse.x / y / button.
MouseEvents ==
    {[type |-> "MouseMove", x |-> q.x, y |-> q.y, button |-> "None"] : q \in EventPoints}
    \cup [type : {"MouseButtonDown", "MouseButtonUp"}, x : {0}, y : {0}, button : {"Left"}]
    \cup {[type |-> "MouseButtonDown", x |-> 0, y |-> 0, button |-> "Right"],
          [type |-> "ScrollDiscrete", x |-> 0, y |-> 0, button |-> "None"]}

ZeroPointer == [x |-> 0, y |-> 0, down |-> FALSE]

\* g_mouse_x, g_mouse_y, g_mouse_down as one value.
MousePointer == [x |-> g_mouse_x, y |-> g_mouse_y, down |-> g_mouse_down]

\* One iteration of the pump's switch.
ApplyEvent(ptr, e) ==
    CASE e.type = "MouseMove" -> [ptr EXCEPT !.x = e.x, !.y = e.y]
      [] e.type = "MouseButtonDown" /\ e.button = "Left" -> [ptr EXCEPT !.down = TRUE]
      [] e.type = "MouseButtonUp" /\ e.button = "Left" -> [ptr EXCEPT !.down = FALSE]
      [] OTHER -> ptr

\* A pump that handles one event per call.
ProcessFirstEvent(ptr, evs) ==
    IF evs = <<>> THEN ptr ELSE ApplyEvent(ptr, Head(evs))

\* The pump's while loop over the polled events, in queue order.
RECURSIVE ProcessEvents(_, _)
ProcessEvents(ptr, evs) ==
    IF evs = <<>> THEN ptr
    ELSE ProcessEvents(ApplyEvent(ptr, Head(evs)), Tail(evs))

\* What PollNextOverlayEvent(g_dashboard_handle, ...) can hand out: nothing
\* for the invalid handle.
Pending == IF g_dashboard_handle = OverlayHandleInvalid THEN <<>> ELSE events

\* The record of a pointer operation: the pointer and the dashboard queue
\* before and after it, and the arguments of a button injection.
PointerOp(op, ptr_before, ptr_after, queue_before, queue_after, button, down) ==
    [op |-> op, before |-> ptr_before, after |-> ptr_after,
     queue |-> queue_before, left |-> queue_after,
     button |-> button, down |-> down]

NoPointerOp == PointerOp("none", ZeroPointer, ZeroPointer, <<>>, <<>>, 0, FALSE)

\* The pump's effect on the pointer and the queue, with its record.
Pumped(op) ==
    LET ptr == ProcessEvents(MousePointer, Pending)
    IN /\ g_mouse_x' = ptr.x
       /\ g_mouse_y' = ptr.y
       /\ g_mouse_down' = ptr.down
       /\ pos_src' = IF \E i \in 1..Len(Pending) : Pending[i].type = "MouseMove"
                     THEN "dashboard" ELSE pos_src
       /\ events' = IF g_dashboard_handle = OverlayHandleInvalid THEN events ELSE <<>>
       /\ ptr_last' = PointerOp(op, MousePointer, ptr, events, events', 0, FALSE)
       /\ UNCHANGED drain_pc

\* How a pass goes on after it bound its target: with a UI context it runs;
\* with none, ImGui::GetIO() / ImGui::NewFrame() work on the null context,
\* which is undefined: the process dies there, or the pass runs on.
ContextOutcomes(ctx) == IF ctx THEN {"run"} ELSE {"crash", "run"}

\* A pass on surface s that bound target idx and died on the null context.
Crashed(s, idx) ==
    /\ used' = [used EXCEPT ![s] = Append(@, idx)]
    /\ fault' = "null_context"
    /\ last_ret' = [last_ret EXCEPT ![s] = NoReturn]
    /\ UNCHANGED <<rt_texture, last_verdict>>

\* static void render_laser_pointers(): whether the HUD pass draws the decal
\* of slot i.
render_laser_pointers(i) == g_laser_states[i].active

\* extern "C" bool imgui_render_hud(width, height)
imgui_render_hud ==
    /\ Len(used["HUD"]) < MaxRenders
    /\ \E outcome \in ContextOutcomes(g_imgui_ctx) :
         IF outcome = "crash"
         THEN /\ Crashed("HUD", g_current_tex)
              /\ UNCHANGED <<g_current_tex, decals, rt_misuse, ptr_last>>
         ELSE /\ \E accepted \in SetOverlayTextureVerdicts(g_handle) :
                   /\ Submitted("HUD", g_current_tex, accepted)
                   /\ g_current_tex' = NextIndex(g_current_tex, accepted)
              /\ decals' = [s \in Slots |-> decals[s] \/ render_laser_pointers(s)]
              /\ rt_misuse' = MisuseAfter(rt_misuse, rt_overlay, "texture", g_handle)
              /\ ptr_last' = PointerOp("render_hud", MousePointer, MousePointer,
                                       events, events, 0, FALSE)
              /\ UNCHANGED fault
    /\ UNCHANGED <<g_handle, g_dashboard_handle, g_dashboard_current_tex,
                   g_keyboard_current_tex, hover, kb_handle, ctrlVars, mailboxVars, chatVars,
                   g_laser_states, present, reported,
                   g_vr, g_imgui_ctx, g_keyboard_imgui_ctx, complete, display_size, boot,
                   rt_overlay, life_last, create_last,
                   g_mouse_x, g_mouse_y, g_mouse_down, pos_src, events, drain_pc>>

\* extern "C" bool imgui_render_dashboard(width, height)
imgui_render_dashboard ==
    /\ Len(used["Dashboard"]) < MaxRenders
    /\ IF ~g_vr
       THEN \* vr_process_dashboard_events polls through the null g_vro
            /\ fault' = "null_interface"
            /\ last_ret' = [last_ret EXCEPT !["Dashboard"] = NoReturn]
            /\ UNCHANGED <<g_dashboard_current_tex, used, rt_texture, last_verdict,
                           rt_misuse, pointerVars, display_size>>
       ELSE /\ Pumped("render_dashboard")
            /\ \E outcome \in ContextOutcomes(g_imgui_ctx) :
                 IF outcome = "crash"
                 THEN /\ Crashed("Dashboard", g_dashboard_current_tex)
                      /\ UNCHANGED <<g_dashboard_current_tex, rt_misuse, display_size>>
                 ELSE /\ display_size' = DashboardLayout(display_size, DashboardSize)
                      /\ \E accepted \in SetOverlayTextureVerdicts(g_dashboard_handle) :
                           /\ Submitted("Dashboard", g_dashboard_current_tex, accepted)
                           /\ g_dashboard_current_tex' =
                                  NextIndex(g_dashboard_current_tex, accepted)
                      /\ rt_misuse' = MisuseAfter(rt_misuse, rt_overlay, "texture",
                                                  g_dashboard_handle)
                      /\ UNCHANGED fault
    /\ UNCHANGED <<g_handle, g_dashboard_handle, g_current_tex,
                   g_keyboard_current_tex, hover, kb_handle,
                   ctrlVars, mailboxVars, chatVars, laserVars,
                   g_vr, g_imgui_ctx, g_keyboard_imgui_ctx, complete, boot,
                   rt_overlay, life_last, create_last>>

\* ---- the keyboard's keys ----

\* float button_size = 35.0f; float spacing = 2.0f;
ButtonSize == 35

KeySpacing == 2

\* const char* rows[], as the labels drawn.
Rows ==
    << <<"1", "2", "3", "4", "5", "6", "7", "8", "9", "0", "-", "=">>,
       <<"Q", "W", "E", "R", "T", "Y", "U", "I", "O", "P">>,
       <<"A", "S", "D", "F", "G", "H", "J", "K", "L">>,
       <<"Z", "X", "C", "V", "B", "N", "M">> >>

\* The (row, i) pairs the two for loops visit.
RowKeys == {rc \in (0..3) \X (0..11) : rc[2] < Len(Rows[rc[1] + 1])}

XOffset(row) == 10 + (IF row = 3 THEN 30 ELSE row * 15)

\* Rows laid out without the spacing between them.
YOffsetPacked(row) == 80 + row * ButtonSize

YOffset(row) == 80 + row * (ButtonSize + KeySpacing)

\* float special_y = 80.0f + 4 * (button_size + spacing) + 10.0f;
SpecialY == 80 + 4 * (ButtonSize + KeySpacing) + 10

\* A hit test that leaves the box's border out.
IsHoveredStrict(p, btn_x, btn_y) ==
    /\ p.x > btn_x
    /\ p.x < btn_x + ButtonSize
    /\ p.y > btn_y
    /\ p.y < btn_y + ButtonSize

\* bool is_hovered of a row key whose bounds start at (btn_x, btn_y).
IsHovered(p, btn_x, btn_y) ==
    /\ p.x >= btn_x
    /\ p.x <= btn_x + ButtonSize
    /\ p.y >= btn_y
    /\ p.y <= btn_y + ButtonSize

space_hovered(p) ==
    p.x >= 100 /\ p.x <= 300 /\ p.y >= SpecialY /\ p.y <= SpecialY + ButtonSize

back_hovered(p) ==
    p.x >= 302 /\ p.x <= 402 /\ p.y >= SpecialY /\ p.y <= SpecialY + ButtonSize

enter_hovered(p) ==
    p.x >= 404 /\ p.x <= 484 /\ p.y >= SpecialY /\ p.y <= SpecialY + ButtonSize

\* The keys one pass highlights for the pointer p = (selected_x, selected_y).
HoveredKeys(p) ==
    {Rows[rc[1] + 1][rc[2] + 1] :
        rc \in {k \in RowKeys :
                  IsHovered(p, XOffset(k[1]) + k[2] * (ButtonSize + KeySpacing),
                            YOffset(k[1]))}}
    \cup (IF space_hovered(p) THEN {"Space"} ELSE {})
    \cup (IF back_hovered(p) THEN {"Back"} ELSE {})
    \cup (IF enter_hovered(p) THEN {"Enter"} ELSE {})

\* Where the UI toolkit puts the buttons: ImGui::SetCursorPos places the first
\* button of a row, ImGui::SameLine(0, spacing) places each further one
\* spacing to the right of the one before, ImGui::Button gives the size.
RECURSIVE LayoutX(_, _)
LayoutX(row, i) ==
    IF i = 0 THEN XOffset(row) ELSE LayoutX(row, i - 1) + ButtonSize + KeySpacing

KeyBoxes ==
    {[key |-> Rows[rc[1] + 1][rc[2] + 1], x0 |-> LayoutX(rc[1], rc[2]),
      y0 |-> YOffset(rc[1]), w |-> ButtonSize, h |-> ButtonSize] : rc \in RowKeys}
    \cup {[key |-> "Space", x0 |-> 100, y0 |-> SpecialY, w |-> 200, h |-> ButtonSize],
          [key |-> "Back", x0 |-> 100 + 200 + KeySpacing, y0 |-> SpecialY,
           w |-> 100, h |-> ButtonSize],
          [key |-> "Enter", x0 |-> 100 + 200 + KeySpacing + 100 + KeySpacing,
           y0 |-> SpecialY, w |-> 80, h |-> ButtonSize]}

\* The pointer a host passes when nothing is selected, and the pointers
\* followed around the borders of the first key and of the Enter key, and
\* across the gaps between neighbouring keys and rows.
NoSelection == [x |-> -1, y |-> -1]

KeyboardPoints ==
    [x : {9, 10, 45, 46, 47, 300, 301, 302, 402, 403, 404, 484, 485},
     y : {79, 80, 115, 116, 117, 226, 238, 273, 274}]

NoHover == [at |-> NoSelection, keys |-> {}]

\* A keyboard pass that renders whatever handle it is given.
RefusesNothing(handle) == FALSE

\* if (handle == k_ulOverlayHandleInvalid) return false;
RefusesHandle(handle) == handle = OverlayHandleInvalid

\* extern "C" bool vr_keyboard_render(handle, selected_x, selected_y, current_text)
\* with (selected_x, selected_y) drawn from Points.
KeyboardRender(Points) ==
    /\ Len(used["Keyboard"]) < MaxRenders
    /\ \E handle \in {OverlayHandleInvalid, KeyboardHandle} :
         /\ kb_handle' = handle
         /\ IF RefusesHandle(handle)
            THEN /\ last_ret' = [last_ret EXCEPT !["Keyboard"] = RefusedHandle]
                 /\ UNCHANGED <<g_keyboard_current_tex, used, rt_texture, last_verdict,
                                hover, fault>>
            ELSE \E outcome \in ContextOutcomes(g_keyboard_imgui_ctx) :
                   IF outcome = "crash"
                   THEN /\ Crashed("Keyboard", g_keyboard_current_tex)
                        /\ UNCHANGED <<g_keyboard_current_tex, hover>>
                   ELSE /\ \E p \in Points :
                             hover' = [at |-> p, keys |-> HoveredKeys(p)]
                        /\ \E accepted \in SetOverlayTextureVerdicts(handle) :
                             /\ Submitted("Keyboard", g_keyboard_current_tex, accepted)
                             /\ g_keyboard_current_tex' = NextIndex(g_keyboard_current_tex, accepted)
                        /\ UNCHANGED fault
    /\ UNCHANGED <<g_handle, g_dashboard_handle, g_current_tex,
                   g_dashboard_current_tex, ctrlVars, mailboxVars, chatVars, laserVars,
                   g_vr, g_imgui_ctx, g_keyboard_imgui_ctx, complete, display_size, boot,
                   lifeVars, pointerVars>>

vr_keyboard_render == KeyboardRender({NoSelection})

vr_keyboard_render_at == KeyboardRender(KeyboardPoints)

\* The record of a vr_create_overlay call: what it returned and the overlays
\* the runtime created during the call.
CreateOp(ret, made) == [called |-> TRUE, ret |-> ret, made |-> made]

NoCreate == [called |-> FALSE, ret |-> FALSE, made |-> {}]

\* VROverlay()->DestroyOverlay(g_handle) after CreateDashboardOverlay failed.
DestroysHud(overlay) == [overlay EXCEPT ![HudHandle] = "destroyed"]

\* extern "C" bool vr_create_overlays(): the runtime creates or refuses each
\* overlay; what a refused CreateOverlay leaves in the handle it was given
\* is the runtime's choice (untouched, or the invalid handle).  recorded says
\* whether the call came through vr_create_overlay, whose return value the
\* model keeps.
CreateOverlays(recorded) ==
    /\ \E hud_ok \in BOOLEAN, dash_ok \in BOOLEAN :
         LET Record(ret, made) ==
                 IF recorded THEN CreateOp(ret, made)
                             ELSE create_last
         IN IF ~hud_ok
            THEN /\ g_handle' \in {g_handle, OverlayHandleInvalid}
                 /\ create_last' = Record(FALSE, {})
                 /\ UNCHANGED <<g_dashboard_handle, rt_overlay>>
            ELSE IF ~dash_ok
            THEN \* the HUD overlay was created and shown, and is destroyed again
                 /\ g_handle' = OverlayHandleInvalid
                 /\ g_dashboard_handle' \in {g_dashboard_handle, OverlayHandleInvalid}
                 /\ rt_overlay' = DestroysHud(rt_overlay)
                 /\ create_last' = Record(FALSE, {HudHandle})
            ELSE /\ g_handle' = HudHandle
                 /\ g_dashboard_handle' = DashboardHandle
                 /\ rt_overlay' = [rt_overlay EXCEPT ![HudHandle] = "shown",
                                                     ![DashboardHandle] = "hidden"]
                 /\ create_last' = Record(TRUE, {HudHandle, DashboardHandle})
    /\ UNCHANGED <<g_current_tex, g_dashboard_current_tex, g_keyboard_current_tex,
                   rt_texture, used, last_verdict, last_ret, hover, kb_handle,
                   ctrlVars, mailboxVars, chatVars, laserVars,
                   bootVars, rt_misuse, life_last, pointerVars>>

vr_create_overlays == CreateOverlays(FALSE)

\* extern "C" bool vr_create_overlay(key, name, width_m, dashboard):
\* return vr_create_overlays();
vr_create_overlay == CreateOverlays(TRUE)

InitFrameVars ==
    /\ g_handle = OverlayHandleInvalid
    /\ g_dashboard_handle = OverlayHandleInvalid
    /\ g_current_tex = 0
    /\ g_dashboard_current_tex = 0
    /\ g_keyboard_current_tex = 0
    /\ rt_texture = [s \in Surfaces |-> NoTarget]
    /\ used = [s \in Surfaces |-> <<>>]
    /\ last_verdict = [s \in Surfaces |-> "none"]
    /\ last_ret = [s \in Surfaces |-> NoReturn]
    /\ hover = NoHover
    /\ kb_handle = OverlayHandleInvalid

----------------------------------------------------------------------------
(* Laser decals and haptics: imgui_update_laser_state,                     *)
(* vr_trigger_haptic_pulse and the host's laser queries.                   *)

\* The decal position the host passes with an update.
DecalPoints == {[x |-> 7, y |-> 3]}

\* Reports of controllers at rest (trigger released, tracked): nothing at a
\* device index, or a left or right controller, connected or not.
RestReports ==
    {NotController} \cup
    [class : {"Controller"}, role : {"LeftHand", "RightHand"},
     connected : BOOLEAN, poseValid : {TRUE}, input : {ZeroInput}]

\* vr_update_controllers while the controllers are at rest.
vr_update_controllers_at_rest == UpdateFrom(RestReports)

\* An update that folds an out-of-range index onto a slot.
LaserStateWrapped(states, controller_idx, hit, pt) ==
    [states EXCEPT ![controller_idx % 2] = [active |-> hit, x |-> pt.x, y |-> pt.y]]

\* The body of imgui_update_laser_state: g_laser_states afterwards.
LaserStateUpdated(states, controller_idx, hit, pt) ==
    IF controller_idx >= 0 /\ controller_idx < 2
    THEN [states EXCEPT ![controller_idx] = [active |-> hit, x |-> pt.x, y |-> pt.y]]
    ELSE states

\* extern "C" void imgui_update_laser_state(controller_idx, hit, x, y)
imgui_update_laser_state ==
    /\ \E controller_idx \in {-1, 0, 1, 2}, hit \in BOOLEAN, pt \in DecalPoints :
         g_laser_states' = LaserStateUpdated(g_laser_states, controller_idx, hit, pt)
    /\ UNCHANGED <<present, reported, decals, ctrlVars, frameVars, mailboxVars, chatVars,
                   bootVars, lifeVars, pointerVars>>

\* No IVRSystem::TriggerHapticPulse call.
NoPulse == [issued |-> FALSE, device |-> DeviceIndexInvalid]

\* extern "C" void vr_trigger_haptic_pulse(controller_idx, duration_us):
\* the TriggerHapticPulse call it issues, if any, and the device it names.
vr_trigger_haptic_pulse(controller_idx) ==
    IF ~InRange(controller_idx) THEN NoPulse
    ELSE IF ~g_controllers[controller_idx].connected THEN NoPulse
    ELSE [issued |-> TRUE, device |-> g_controllers[controller_idx].device_index]

\* extern "C" LaserHit vr_test_laser_intersection_main(controller_idx): the
\* host's laser query against the HUD overlay, with the runtime's answer.
vr_test_laser_intersection_main ==
    /\ \E controller_idx \in {-1, 0, 1, 2}, rt_hit \in BOOLEAN :
         LET r == vr_test_laser_intersection(controller_idx, g_handle, rt_hit)
         IN reported' = [s \in Slots |->
                            reported[s] \/ (s = controller_idx /\ r.hit)]
    /\ UNCHANGED <<g_laser_states, present, decals,
                   ctrlVars, frameVars, mailboxVars, chatVars,
                   bootVars, lifeVars, pointerVars>>

InitLaserVars ==
    /\ g_laser_states = [s \in Slots |-> [active |-> FALSE, x |-> 0, y |-> 0]]
    /\ present = [s \in Slots |-> FALSE]
    /\ reported = [s \in Slots |-> FALSE]
    /\ decals = [s \in Slots |-> FALSE]

----------------------------------------------------------------------------
(* Dashboard-state mailbox: imgui_update_dashboard_state,                  *)
(* imgui_update_overlay_settings, imgui_get_dashboard_state and the        *)
(* settings window drawn by imgui_render_dashboard (OpenGL backend; the    *)
(* stub backend's three entry points read the same).                       *)

\* State changes followed between two polls.
MaxChanges == 3

\* IM_ARRAYSIZE(tabs) in render_settings_window.
NumTabs == 9

\* case 5: "Stream Overlay", the tab that holds the Apply Settings button.
StreamOverlayTab == 5

\* Tabs the host and the user pick from: the first, the last and the one
\* with the Apply button.
TabChoices == {0, StreamOverlayTab, NumTabs - 1}

DashboardStates == [show_settings : BOOLEAN, current_tab : TabChoices]

\* What the user does to the settings window in one dashboard frame.
UiEvents ==
    {[kind |-> "none", tab |-> 0], [kind |-> "back", tab |-> 0],
     [kind |-> "apply", tab |-> 0], [kind |-> "edit", tab |-> 0]}
    \cup [kind : {"select"}, tab : TabChoices]

\* A history record: the operation, whether its pointer argument was non-null,
\* what it returned, the state it carried (passed in by an update, written
\* out by a poll; <<>>: none) and the state changes pending when it began.
MbOp(op, valid, ret, val) ==
    [op |-> op, valid |-> valid, ret |-> ret, val |-> val, n |-> changes]

NoOp == [op |-> "none", valid |-> FALSE, ret |-> FALSE, val |-> <<>>, n |-> 0]

Shift(rec) ==
    /\ mb_last' = rec
    /\ mb_prev' = mb_last

\* One more state change is pending; the stored state is now st.
Changed(st) ==
    /\ changes' = changes + 1
    /\ last_change' = st

\* An update that keeps the first pending value while the flag is set.
StoreFirstPending(state) ==
    [state |-> IF g_dashboard_state_changed THEN g_dashboard_state ELSE state,
     changed |-> TRUE]

\* An update that stores the state and leaves the flag as it is.
StoreQuietly(state) == [state |-> state, changed |-> g_dashboard_state_changed]

\* g_dashboard_state = *state; g_dashboard_state_changed = true;
StoreState(state) == [state |-> state, changed |-> TRUE]

\* extern "C" void imgui_update_dashboard_state(const DashboardState* state)
imgui_update_dashboard_state ==
    /\ changes < MaxChanges
    /\ \E valid \in BOOLEAN, state \in DashboardStates :
         /\ IF valid
            THEN /\ g_dashboard_state' = StoreState(state).state
                 /\ g_dashboard_state_changed' = StoreState(state).changed
                 /\ Changed(state)
            ELSE UNCHANGED <<g_dashboard_state, g_dashboard_state_changed,
                             changes, last_change>>
         /\ Shift(MbOp("update", valid, FALSE, IF valid THEN <<state>> ELSE <<>>))
    /\ UNCHANGED <<g_overlay_settings, current_tab, show_tabs, threadVars,
                   ctrlVars, frameVars, chatVars, laserVars,
                   bootVars, lifeVars, pointerVars>>

\* extern "C" void imgui_update_overlay_settings(const OverlaySettingsFFI* settings)
imgui_update_overlay_settings ==
    /\ \E valid \in BOOLEAN :
         /\ g_overlay_settings' = IF valid THEN "host" ELSE g_overlay_settings
         /\ Shift(MbOp("settings", valid, FALSE, <<>>))
    /\ UNCHANGED <<g_dashboard_state, g_dashboard_state_changed, current_tab,
                   show_tabs, changes, last_change, threadVars,
                   ctrlVars, frameVars, chatVars, laserVars,
                   bootVars, lifeVars, pointerVars>>

\* A poll that returns the state and leaves the flag set.
PollKeepsFlag(valid) ==
    IF valid /\ g_dashboard_state_changed
    THEN [ret |-> TRUE, out |-> <<g_dashboard_state>>, changed |-> TRUE]
    ELSE [ret |-> FALSE, out |-> <<>>, changed |-> g_dashboard_state_changed]

\* The body of imgui_get_dashboard_state: the value returned, what is
\* written through the pointer (<<>>: nothing) and the flag afterwards.
Poll(valid) ==
    IF valid /\ g_dashboard_state_changed
    THEN [ret |-> TRUE, out |-> <<g_dashboard_state>>, changed |-> FALSE]
    ELSE [ret |-> FALSE, out |-> <<>>, changed |-> g_dashboard_state_changed]

\* extern "C" bool imgui_get_dashboard_state(DashboardState* state)
imgui_get_dashboard_state ==
    /\ \E valid \in BOOLEAN :
         /\ g_dashboard_state_changed' = Poll(valid).changed
         /\ Shift(MbOp("poll", valid, Poll(valid).ret, Poll(valid).out))
         /\ changes' = IF valid THEN 0 ELSE changes
    /\ UNCHANGED <<g_dashboard_state, g_overlay_settings, current_tab, show_tabs,
                   last_change, threadVars, ctrlVars, frameVars, chatVars, laserVars,
                   bootVars, lifeVars, pointerVars>>

\* static void render_settings_window(), drawn once per dashboard frame,
\* with what the user does to it in that frame.
render_settings_window ==
    /\ \E ev \in UiEvents :
         CASE ev.kind = "back" /\ ~show_tabs ->
                /\ show_tabs' = TRUE
                /\ Shift(MbOp("back", TRUE, FALSE, <<>>))
                /\ UNCHANGED <<g_dashboard_state, g_dashboard_state_changed,
                               g_overlay_settings, current_tab, changes, last_change>>
           [] ev.kind = "select" /\ show_tabs /\ changes < MaxChanges ->
                /\ current_tab' = ev.tab
                /\ show_tabs' = FALSE
                /\ g_dashboard_state' = [g_dashboard_state EXCEPT !.current_tab = ev.tab]
                /\ g_dashboard_state_changed' = TRUE
                /\ Changed([g_dashboard_state EXCEPT !.current_tab = ev.tab])
                /\ Shift(MbOp("select", TRUE, FALSE, <<>>))
                /\ UNCHANGED g_overlay_settings
           [] ev.kind = "apply" /\ ~show_tabs /\ current_tab = StreamOverlayTab
                               /\ changes < MaxChanges ->
                /\ g_dashboard_state_changed' = TRUE
                /\ Changed(g_dashboard_state)
                /\ Shift(MbOp("apply", TRUE, FALSE, <<>>))
                /\ UNCHANGED <<g_dashboard_state, g_overlay_settings, current_tab, show_tabs>>
           [] ev.kind = "edit" /\ ~show_tabs /\ current_tab = StreamOverlayTab ->
                /\ g_overlay_settings' = "user"
                /\ Shift(MbOp("edit", TRUE, FALSE, <<>>))
                /\ UNCHANGED <<g_dashboard_state, g_dashboard_state_changed,
                               current_tab, show_tabs, changes, last_change>>
           [] OTHER ->
                /\ Shift(MbOp("frame", TRUE, FALSE, <<>>))
                /\ UNCHANGED <<g_dashboard_state, g_dashboard_state_changed,
                               g_overlay_settings, current_tab, show_tabs,
                               changes, last_change>>
    /\ UNCHANGED <<threadVars, ctrlVars, frameVars, chatVars, laserVars,
                   bootVars, lifeVars, pointerVars>>

\* ---- imgui_update_dashboard_state and imgui_get_dashboard_state, statement
\* by statement, each called from a thread of its own ----

\* Updates followed in one run of the two threads.
MaxUpdates == 3

\* A mutex that excludes nobody.
ExcludesNothing(holder) == TRUE

\* Whether a mutex held by holder ("free": by nobody) lets a thread in.
Excludes(holder) == holder = "free"

\* The host's lock around a call, when it uses one.
CanEnter == mutex => Excludes(lock)

Acquire(t) == lock' = IF mutex THEN t ELSE lock

Release == lock' = IF mutex THEN "free" ELSE lock

ThreadRest ==
    UNCHANGED <<mutex, g_overlay_settings, current_tab, show_tabs, mb_last, mb_prev,
                changes, last_change, ctrlVars, frameVars, chatVars, laserVars,
                bootVars, lifeVars, pointerVars>>

\* imgui_update_dashboard_state(state) is entered with a non-null state.
update_enter ==
    /\ update_pc = "idle"
    /\ updates < MaxUpdates
    /\ CanEnter
    /\ Acquire("update")
    /\ \E state \in DashboardStates : update_arg' = state
    /\ updates' = updates + 1
    /\ update_pc' = "store"
    /\ UNCHANGED <<g_dashboard_state, g_dashboard_state_changed, poll_pc,
                   stored_seq, copied_seq, polled_seq>>
    /\ ThreadRest

\* g_dashboard_state = *state;
update_store ==
    /\ update_pc = "store"
    /\ g_dashboard_state' = update_arg
    /\ stored_seq' = updates
    /\ update_pc' = "flag"
    /\ UNCHANGED <<g_dashboard_state_changed, lock, update_arg, poll_pc, updates,
                   copied_seq, polled_seq>>
    /\ ThreadRest

\* g_dashboard_state_changed = true; and the call returns.
update_flag ==
    /\ update_pc = "flag"
    /\ g_dashboard_state_changed' = TRUE
    /\ update_pc' = "idle"
    /\ Release
    /\ UNCHANGED <<g_dashboard_state, update_arg, poll_pc, updates,
                   stored_seq, copied_seq, polled_seq>>
    /\ ThreadRest

\* imgui_get_dashboard_state(state) is entered with a non-null state and
\* tests g_dashboard_state_changed; with the flag clear it returns false.
poll_test ==
    /\ poll_pc = "idle"
    /\ CanEnter
    /\ IF g_dashboard_state_changed
       THEN poll_pc' = "copy" /\ Acquire("poll")
       ELSE UNCHANGED <<poll_pc, lock>>
    /\ UNCHANGED <<g_dashboard_state, g_dashboard_state_changed, update_pc,
                   update_arg, updates, stored_seq, copied_seq, polled_seq>>
    /\ ThreadRest

\* *state = g_dashboard_state;
poll_copy ==
    /\ poll_pc = "copy"
    /\ copied_seq' = stored_seq
    /\ poll_pc' = "clear"
    /\ UNCHANGED <<g_dashboard_state, g_dashboard_state_changed, lock, update_pc,
                   update_arg, updates, stored_seq, polled_seq>>
    /\ ThreadRest

\* g_dashboard_state_changed = false; return true;
poll_clear ==
    /\ poll_pc = "clear"
    /\ g_dashboard_state_changed' = FALSE
    /\ polled_seq' = copied_seq
    /\ poll_pc' = "idle"
    /\ Release
    /\ UNCHANGED <<g_dashboard_state, update_pc, update_arg, updates,
                   stored_seq, copied_seq>>
    /\ ThreadRest

InitThreadVars ==
    /\ lock = "free"
    /\ update_pc = "idle"
    /\ update_arg = [show_settings |-> FALSE, current_tab |-> 0]
    /\ poll_pc = "idle"
    /\ updates = 0
    /\ stored_seq = 0
    /\ copied_seq = 0
    /\ polled_seq = 0

InitMailboxData ==
    /\ InitThreadVars
    /\ g_dashboard_state = [show_settings |-> FALSE, current_tab |-> 0]
    /\ g_dashboard_state_changed = FALSE
    /\ g_overlay_settings = "default"
    /\ current_tab = 0
    /\ show_tabs = TRUE
    /\ mb_last = NoOp
    /\ mb_prev = NoOp
    /\ changes = 0
    /\ last_change = [show_settings |-> FALSE, current_tab |-> 0]

\* The single-threaded tick discipline: no mutex.
InitMailboxVars ==
    /\ mutex = FALSE
    /\ InitMailboxData

----------------------------------------------------------------------------
(* Chat transcript and input box: imgui_update_chat_state,                 *)
(* render_chat_window and imgui_get_sent_message, in each of the three     *)
(* backends.                                                               *)

Backends == {"d3d", "gl", "stub"}

\* Messages in one batch handed over by the host.
MaxBatch == 2

\* Stored messages followed in the stub backend, whose transcript only grows.
MaxTranscript == 4

\* Non-empty submits followed between two polls that return true.
MaxSubmits == 2

HostMessages == [author : {"viewer"}, text : {"hi", "yo"}]

Batches == UNION {[1..n -> HostMessages] : n \in 0..MaxBatch}

\* What the input box can hold.
Texts == {"", "a", "ab"}

\* msg1 and msg2 of the stub's vr_init_overlay.
TestMessages ==
    <<[author |-> "System", text |-> "Running in VR stub mode"],
      [author |-> "Test", text |-> "This is a test message"]>>

\* A history record: the operation, whether its pointer argument was non-null,
\* what it returned, the batch or text it carried, and the submits pending
\* and the messages stored when it began.
ChatOp(op, valid, ret, batch, text) ==
    [op |-> op, valid |-> valid, ret |-> ret, batch |-> batch, text |-> text,
     n |-> submits, had |-> Len(g_chat_messages), cap |-> 0]

NoChatOp ==
    [op |-> "none", valid |-> FALSE, ret |-> FALSE, batch |-> <<>>, text |-> "",
     n |-> 0, had |-> 0, cap |-> 0]

\* An update that appends the batch to what is stored.
AppendTranscript(b, stored, messages_ptr, msgs) ==
    IF b = "stub" THEN stored
    ELSE IF messages_ptr /\ Len(msgs) > 0 THEN stored \o msgs ELSE stored

\* The transcript imgui_update_chat_state leaves behind in backend b, given
\* the stored one, whether messages_ptr is non-null and the messages_count
\* messages behind it.
ReplaceTranscript(b, stored, messages_ptr, msgs) ==
    IF b = "stub" THEN stored
    ELSE IF messages_ptr /\ Len(msgs) > 0 THEN msgs ELSE <<>>

\* extern "C" void imgui_update_chat_state(messages_ptr, messages_count, ...)
imgui_update_chat_state ==
    /\ \E messages_ptr \in BOOLEAN, msgs \in Batches :
         /\ g_chat_messages' =
                ReplaceTranscript(backend, g_chat_messages, messages_ptr, msgs)
         /\ chat_last' = ChatOp("update", messages_ptr, FALSE, msgs, "")
    /\ UNCHANGED <<backend, g_input_buffer, g_message_sent, submits, submitted,
                   focusVars, ctrlVars, frameVars, mailboxVars, laserVars,
                   bootVars, lifeVars, pointerVars>>

\* The stub's vr_init_overlay, which stores its two test messages.
stub_vr_init_overlay ==
    /\ backend = "stub"
    /\ Len(g_chat_messages) + Len(TestMessages) <= MaxTranscript
    /\ g_chat_messages' = g_chat_messages \o TestMessages
    /\ chat_last' = ChatOp("init", TRUE, TRUE, <<>>, "")
    /\ UNCHANGED <<backend, g_input_buffer, g_message_sent, submits, submitted,
                   focusVars, ctrlVars, frameVars, mailboxVars, laserVars,
                   bootVars, lifeVars, pointerVars>>

\* Focus passes followed between two reads of the input-just-focused flag.
MaxPasses == 2

\* Whether a pass that saw InputText return enter with the box holding typed
\* takes it as a submit.
SubmitAnyText(enter, typed) == enter

SubmitAccepted(enter, typed) == enter /\ Len(typed) > 0

\* What ImGui::IsItemActive() || ImGui::IsItemFocused() can answer after the
\* input box was laid out; both are constant false in the stub, and the
\* Direct3D file does not ask.
ItemFocusOutcomes(b) == IF b = "gl" THEN BOOLEAN ELSE {FALSE}

\* A history record of the focus flag: the operation, what it returned, the
\* box's focus before and after it, and the flag and the passes before it.
FocusOp(op, ret, focused) ==
    [op |-> op, ret |-> ret, was_focused |-> g_input_focused, focused |-> focused,
     flag |-> g_input_just_focused, passes |-> passes]

NoFocusOp ==
    [op |-> "none", ret |-> FALSE, was_focused |-> FALSE, focused |-> FALSE,
     flag |-> FALSE, passes |-> <<FALSE>>]

\* A flag raised in every pass that finds the box focused.
JustFocusedWhileFocused(flag, was_focused, focused) == flag \/ focused

\* The input-just-focused flag after a pass that found the box focused or
\* not, given the flag and g_input_focused before the pass.
JustFocusedAfter(flag, was_focused, focused) ==
    flag \/ (focused /\ ~was_focused)

\* The focus bookkeeping of render_chat_window.
TrackFocus ==
    IF backend = "d3d"
    THEN UNCHANGED focusVars
    ELSE /\ Len(passes) <= MaxPasses
         /\ \E focused \in ItemFocusOutcomes(backend) :
              /\ g_input_focused' = focused
              /\ g_input_just_focused' =
                     JustFocusedAfter(g_input_just_focused, g_input_focused, focused)
              /\ passes' = Append(passes, focused)
              /\ focus_last' = FocusOp("pass", FALSE, focused)

\* static void render_chat_window(bool is_dashboard): the input box takes the
\* user's edit (typed: the text it holds afterwards) and InputText returns
\* true when Enter was pressed.  The stub's InputText does neither.
render_chat_window ==
    /\ TrackFocus
    /\ \E typed \in Texts, enter \in BOOLEAN :
         IF backend = "stub"
         THEN /\ chat_last' = ChatOp("frame", TRUE, FALSE, <<>>, g_input_buffer)
              /\ UNCHANGED <<g_input_buffer, g_message_sent, submits, submitted>>
         ELSE /\ g_input_buffer' = typed
              /\ IF SubmitAccepted(enter, typed)
                 THEN /\ submits < MaxSubmits
                      /\ g_message_sent' = TRUE
                      /\ submits' = submits + 1
                      /\ submitted' = typed
                      /\ chat_last' = ChatOp("submit", TRUE, TRUE, <<>>, typed)
                 ELSE /\ chat_last' = ChatOp("frame", TRUE, enter, <<>>, typed)
                      /\ UNCHANGED <<g_message_sent, submits, submitted>>
    /\ UNCHANGED <<backend, g_chat_messages, ctrlVars, frameVars, mailboxVars, laserVars,
                   bootVars, lifeVars, pointerVars>>

Min(a, b) == IF a < b THEN a ELSE b

Max(a, b) == IF a > b THEN a ELSE b

\* Largest capacity a host passes to imgui_get_sent_message.
MaxCapacity == 3

\* A copy that takes the whole text whatever the capacity.
CopiedWhole(text, capacity) == text

\* What strncpy(buffer, g_input_buffer, capacity - 1) and
\* buffer[capacity - 1] = 0 leave in the buffer as a C string.
Copied(text, capacity) == SubSeq(text, 1, Min(Len(text), capacity - 1))

\* The record of a poll with capacity cap: text is what the buffer holds.
PollOp(valid, ret, text, capacity) ==
    [ChatOp("poll", valid, ret, <<>>, text) EXCEPT !.cap = capacity]

\* extern "C" bool imgui_get_sent_message(uint8_t* buffer, size_t capacity);
\* buffer: whether the pointer is non-null.
imgui_get_sent_message ==
    /\ \E buffer \in BOOLEAN, capacity \in 0..MaxCapacity :
         IF g_message_sent /\ buffer /\ capacity > 0
         THEN /\ backend = "stub" => Len(g_chat_messages) < MaxTranscript
              /\ chat_last' = PollOp(TRUE, TRUE, Copied(g_input_buffer, capacity),
                                     capacity)
              /\ g_message_sent' = FALSE
              /\ g_chat_messages' =
                     IF backend = "stub"
                     THEN Append(g_chat_messages,
                                 [author |-> "You", text |-> g_input_buffer])
                     ELSE g_chat_messages
              /\ g_input_buffer' = ""
              /\ submits' = 0
         ELSE /\ chat_last' = PollOp(buffer /\ capacity > 0, FALSE, "", capacity)
              /\ UNCHANGED <<g_chat_messages, g_input_buffer, g_message_sent, submits>>
    /\ UNCHANGED <<backend, submitted, focusVars,
                   ctrlVars, frameVars, mailboxVars, laserVars,
                   bootVars, lifeVars, pointerVars>>

\* extern "C" bool imgui_get_input_focused(), which the Direct3D file does
\* not have.
imgui_get_input_focused ==
    /\ backend # "d3d"
    /\ focus_last' = FocusOp("read", g_input_just_focused, g_input_focused)
    /\ g_input_just_focused' = FALSE
    /\ passes' = <<g_input_focused>>
    /\ UNCHANGED <<backend, g_chat_messages, g_input_buffer, g_message_sent,
                   chat_last, submits, submitted, g_input_focused,
                   ctrlVars, frameVars, mailboxVars, laserVars,
                   bootVars, lifeVars, pointerVars>>

InitChatVars ==
    /\ g_chat_messages = <<>>
    /\ g_input_buffer = ""
    /\ g_message_sent = FALSE
    /\ chat_last = NoChatOp
    /\ submits = 0
    /\ submitted = ""
    /\ g_input_focused = FALSE
    /\ g_input_just_focused = FALSE
    /\ passes = <<FALSE>>
    /\ focus_last = NoFocusOp

----------------------------------------------------------------------------
(* Initialisation: vr_init_overlay, imgui_init, vr_keyboard_init_rendering. *)

InitCalls == {"vr", "imgui", "keyboard"}


\* extern "C" bool vr_init_overlay(): VR_Init succeeds or fails; the three
\* interface pointers are set only when it succeeds.
vr_init_overlay ==
    /\ boot["vr"] # "ok"
    /\ \E ok \in BOOLEAN :
         /\ g_vr' = ok
         /\ boot' = [boot EXCEPT !["vr"] = IF ok THEN "ok" ELSE "failed"]
    /\ UNCHANGED <<g_imgui_ctx, g_keyboard_imgui_ctx, complete, display_size, fault,
                   ctrlVars, frameVars, mailboxVars, chatVars, laserVars,
                   lifeVars, pointerVars>>

\* extern "C" void imgui_init(device_ptr, context_ptr): n targets come out
\* complete before create_framebuffer_texture first fails (HUD targets
\* first, then the dashboard's); the UI context is created only after all
\* four.
imgui_init ==
    /\ boot["imgui"] = "no"
    /\ \E n \in 0..(2 * NumTargets) :
         /\ complete' = [complete EXCEPT !["HUD"] = Min(n, NumTargets),
                                         !["Dashboard"] = Max(n - NumTargets, 0)]
         /\ g_imgui_ctx' = (n = 2 * NumTargets)
         /\ display_size' = IF n = 2 * NumTargets THEN HudSize ELSE display_size
         /\ boot' = [boot EXCEPT !["imgui"] =
                          IF n = 2 * NumTargets THEN "ok" ELSE "failed"]
    /\ UNCHANGED <<g_vr, g_keyboard_imgui_ctx, fault,
                   ctrlVars, frameVars, mailboxVars, chatVars, laserVars,
                   lifeVars, pointerVars>>

\* extern "C" bool vr_keyboard_init_rendering(device_ptr, context_ptr)
vr_keyboard_init_rendering ==
    /\ boot["keyboard"] = "no"
    /\ \E n \in 0..NumTargets :
         /\ complete' = [complete EXCEPT !["Keyboard"] = n]
         /\ g_keyboard_imgui_ctx' = (n = NumTargets)
         /\ boot' = [boot EXCEPT !["keyboard"] =
                          IF n = NumTargets THEN "ok" ELSE "failed"]
    /\ UNCHANGED <<g_vr, g_imgui_ctx, display_size, fault,
                   ctrlVars, frameVars, mailboxVars, chatVars, laserVars,
                   lifeVars, pointerVars>>

\* After static initialisation: nothing is set up.
InitBootVars ==
    /\ g_vr = FALSE
    /\ g_imgui_ctx = FALSE
    /\ g_keyboard_imgui_ctx = FALSE
    /\ complete = [s \in Surfaces |-> 0]
    /\ display_size = NoSize
    /\ boot = [c \in InitCalls |-> "no"]
    /\ fault = "none"

\* After vr_init_overlay returned true and before the UI is set up.
InitRuntimeUp ==
    /\ g_vr = TRUE
    /\ g_imgui_ctx = FALSE
    /\ g_keyboard_imgui_ctx = FALSE
    /\ complete = [s \in Surfaces |-> 0]
    /\ display_size = NoSize
    /\ boot = [c \in InitCalls |-> IF c = "vr" THEN "ok" ELSE "no"]
    /\ fault = "none"

\* After vr_init_overlay, imgui_init and vr_keyboard_init_rendering all
\* succeeded.
InitUpVars ==
    /\ g_vr = TRUE
    /\ g_imgui_ctx = TRUE
    /\ g_keyboard_imgui_ctx = TRUE
    /\ complete = [s \in Surfaces |-> NumTargets]
    /\ display_size = HudSize
    /\ boot = [c \in InitCalls |-> "ok"]
    /\ fault = "none"

----------------------------------------------------------------------------
(* Overlay lifecycle: vr_show_overlay, vr_hide_overlay, vr_destroy_overlay, *)
(* vr_shutdown.                                                            *)

NoLifeCall ==
    [op |-> "none", handle |-> OverlayHandleInvalid, called |-> FALSE, changed |-> FALSE]

\* A wrapper that forwards every handle to the runtime.
RuntimeCalledAlways(handle) == TRUE

\* The guard of vr_show_overlay, vr_hide_overlay and vr_destroy_overlay:
\* whether the runtime is called at all.
RuntimeCalled(handle) == handle # OverlayHandleInvalid

\* Handles the host passes: the invalid handle, or a live overlay's.
HostHandles ==
    {OverlayHandleInvalid} \cup {h \in Overlays : rt_overlay[h] \in {"shown", "hidden"}}

\* vr_show_overlay / vr_hide_overlay / vr_destroy_overlay(handle), by the
\* runtime call each forwards.
Forward(call) ==
    /\ \E handle \in HostHandles :
         IF RuntimeCalled(handle)
         THEN /\ rt_overlay' = RtOverlayAfter(rt_overlay, call, handle)
              /\ rt_misuse' = MisuseAfter(rt_misuse, rt_overlay, call, handle)
              /\ life_last' = [op |-> call, handle |-> handle, called |-> TRUE,
                               changed |-> rt_overlay' # rt_overlay]
         ELSE /\ life_last' = [op |-> call, handle |-> handle, called |-> FALSE,
                               changed |-> FALSE]
              /\ UNCHANGED <<rt_overlay, rt_misuse>>
    /\ UNCHANGED <<ctrlVars, frameVars, mailboxVars, chatVars, laserVars,
                   bootVars, pointerVars, create_last>>

\* extern "C" void vr_show_overlay(handle)
vr_show_overlay == Forward("show")

\* extern "C" void vr_hide_overlay(handle)
vr_hide_overlay == Forward("hide")

\* extern "C" void vr_destroy_overlay(handle)
vr_destroy_overlay == Forward("destroy")

\* extern "C" void vr_shutdown(): DestroyOverlay for every non-zero handle
\* the wrapper holds (g_keyboard_handle is never assigned), through g_vro.
vr_shutdown ==
    /\ boot["vr"] # "down"
    /\ IF ~g_vr /\ (g_handle # OverlayHandleInvalid
                     \/ g_dashboard_handle # OverlayHandleInvalid)
       THEN /\ fault' = "null_interface"
            /\ UNCHANGED <<boot, rt_overlay, rt_misuse>>
       ELSE LET ov1  == RtOverlayAfter(rt_overlay, "destroy", g_handle)
                mis1 == MisuseAfter(rt_misuse, rt_overlay, "destroy", g_handle)
            IN /\ rt_overlay' = RtOverlayAfter(ov1, "destroy", g_dashboard_handle)
               /\ rt_misuse' = MisuseAfter(mis1, ov1, "destroy", g_dashboard_handle)
               /\ boot' = [boot EXCEPT !["vr"] = "down"]
               /\ UNCHANGED fault
    /\ UNCHANGED <<g_vr, g_imgui_ctx, g_keyboard_imgui_ctx, complete, display_size,
                   life_last,
                   create_last,
                   ctrlVars, frameVars, mailboxVars, chatVars, laserVars, pointerVars>>

InitLifeVars ==
    /\ rt_overlay = [h \in Overlays |-> "none"]
    /\ rt_misuse = NoMisuse
    /\ life_last = NoLifeCall
    /\ create_last = NoCreate

----------------------------------------------------------------------------
(* Pointer: imgui_inject_mouse_pos, imgui_inject_mouse_button, the event   *)
(* polls and vr_process_dashboard_events.                                  *)

\* The runtime queues an input event for the dashboard overlay.
rt_dashboard_input ==
    /\ g_dashboard_handle # OverlayHandleInvalid
    /\ Len(events) < MaxEvents
    /\ \E e \in MouseEvents : events' = Append(events, e)
    /\ UNCHANGED <<g_mouse_x, g_mouse_y, g_mouse_down, pos_src, ptr_last, drain_pc,
                   ctrlVars, frameVars, mailboxVars, chatVars, laserVars,
                   bootVars, lifeVars>>

\* extern "C" void imgui_inject_mouse_pos(x, y)
imgui_inject_mouse_pos ==
    /\ \E pt \in InjectPoints :
         /\ g_mouse_x' = pt.x
         /\ g_mouse_y' = pt.y
         /\ pos_src' = "inject"
         /\ ptr_last' = PointerOp("inject_pos", MousePointer,
                                  [x |-> pt.x, y |-> pt.y, down |-> g_mouse_down],
                                  events, events, 0, FALSE)
    /\ UNCHANGED <<g_mouse_down, events, drain_pc,
                   ctrlVars, frameVars, mailboxVars, chatVars, laserVars,
                   bootVars, lifeVars>>

\* A button injection that takes every button for the left one.
ButtonDownAnyIndex(cur, button, down) == down

\* g_mouse_down after imgui_inject_mouse_button(button, down).
ButtonDownAfter(cur, button, down) == IF button = 0 THEN down ELSE cur

\* extern "C" void imgui_inject_mouse_button(button, down)
imgui_inject_mouse_button ==
    /\ \E button \in {0, 1}, down \in BOOLEAN :
         /\ g_mouse_down' = ButtonDownAfter(g_mouse_down, button, down)
         /\ ptr_last' = PointerOp("inject_button", MousePointer,
                                  [MousePointer EXCEPT !.down = g_mouse_down'],
                                  events, events, button, down)
    /\ UNCHANGED <<g_mouse_x, g_mouse_y, pos_src, events, drain_pc,
                   ctrlVars, frameVars, mailboxVars, chatVars, laserVars,
                   bootVars, lifeVars>>

\* extern "C" void vr_process_dashboard_events()
vr_process_dashboard_events ==
    /\ IF ~g_vr
       THEN \* g_vro->PollNextOverlayEvent through the null g_vro
            /\ fault' = "null_interface"
            /\ UNCHANGED pointerVars
       ELSE /\ Pumped("pump")
            /\ UNCHANGED fault
    /\ UNCHANGED <<g_vr, g_imgui_ctx, g_keyboard_imgui_ctx, complete, display_size, boot,
                   ctrlVars, frameVars, mailboxVars, chatVars, laserVars, lifeVars>>

\* extern "C" bool vr_overlay_poll(e): the HUD overlay's queue is the
\* host's business; the wrapper only forwards the call through g_vro.
vr_overlay_poll ==
    /\ fault' = IF g_vr THEN fault ELSE "null_interface"
    /\ UNCHANGED <<g_vr, g_imgui_ctx, g_keyboard_imgui_ctx, complete, display_size, boot,
                   ctrlVars, frameVars, mailboxVars, chatVars, laserVars,
                   lifeVars, pointerVars>>

\* extern "C" bool vr_dashboard_poll(e): hands the oldest pending dashboard
\* event to the host.
vr_dashboard_poll ==
    /\ IF ~g_vr
       THEN /\ fault' = "null_interface"
            /\ UNCHANGED events
       ELSE /\ events' = IF Pending = <<>> THEN events ELSE Tail(events)
            /\ UNCHANGED fault
    /\ UNCHANGED <<g_mouse_x, g_mouse_y, g_mouse_down, pos_src, ptr_last, drain_pc,
                   g_vr, g_imgui_ctx, g_keyboard_imgui_ctx, complete, display_size, boot,
                   ctrlVars, frameVars, mailboxVars, chatVars, laserVars, lifeVars>>

\* ---- a dashboard pass step by step, the runtime delivering meanwhile ----

\* imgui_render_dashboard is called and vr_process_dashboard_events reaches
\* its while loop.
drain_enter ==
    /\ drain_pc = "idle"
    /\ Len(used["Dashboard"]) < MaxRenders
    /\ drain_pc' = "polling"
    /\ ptr_last' = PointerOp("enter", MousePointer, MousePointer, events, events, 0, FALSE)
    /\ UNCHANGED <<g_mouse_x, g_mouse_y, g_mouse_down, pos_src, events,
                   ctrlVars, frameVars, mailboxVars, chatVars, laserVars,
                   bootVars, lifeVars>>

\* One evaluation of the loop condition PollNextOverlayEvent(...): with an
\* event pending the body's switch handles it and the loop goes round; with
\* none the loop ends, and the pass draws, submits and returns.
drain_poll ==
    /\ drain_pc = "polling"
    /\ IF Pending # <<>>
       THEN /\ LET ptr == ApplyEvent(MousePointer, Head(events))
               IN /\ g_mouse_x' = ptr.x
                  /\ g_mouse_y' = ptr.y
                  /\ g_mouse_down' = ptr.down
                  /\ ptr_last' = PointerOp("iteration", MousePointer, ptr,
                                           events, Tail(events), 0, FALSE)
            /\ pos_src' = IF Head(events).type = "MouseMove" THEN "dashboard" ELSE pos_src
            /\ events' = Tail(events)
            /\ UNCHANGED <<drain_pc, frameVars, rt_misuse, display_size>>
       ELSE /\ drain_pc' = "idle"
            /\ display_size' = DashboardLayout(display_size, DashboardSize)
            /\ \E accepted \in SetOverlayTextureVerdicts(g_dashboard_handle) :
                  /\ Submitted("Dashboard", g_dashboard_current_tex, accepted)
                  /\ g_dashboard_current_tex' =
                         NextIndex(g_dashboard_current_tex, accepted)
            /\ rt_misuse' = MisuseAfter(rt_misuse, rt_overlay, "texture",
                                        g_dashboard_handle)
            /\ ptr_last' = PointerOp("returned", MousePointer, MousePointer,
                                     events, events, 0, FALSE)
            /\ UNCHANGED <<g_mouse_x, g_mouse_y, g_mouse_down, pos_src, events,
                           g_handle, g_dashboard_handle, g_current_tex,
                           g_keyboard_current_tex, hover, kb_handle>>
    /\ UNCHANGED <<ctrlVars, mailboxVars, chatVars, laserVars,
                   g_vr, g_imgui_ctx, g_keyboard_imgui_ctx, complete, boot, fault,
                   rt_overlay, life_last, create_last>>

InitPointerVars ==
    /\ drain_pc = "idle"
    /\ g_mouse_x = 0
    /\ g_mouse_y = 0
    /\ g_mouse_down = FALSE
    /\ pos_src = "init"
    /\ events = <<>>
    /\ ptr_last = NoPointerOp

----------------------------------------------------------------------------
(* Specifications.                                                         *)

InitRest ==
    /\ InitCtrlVars
    /\ InitFrameVars
    /\ InitMailboxVars
    /\ InitChatVars
    /\ InitLaserVars
    /\ InitLifeVars
    /\ InitPointerVars

Init ==
    /\ InitRest
    /\ InitUpVars
    /\ backend = "gl"

\* The same, in whichever backend the build links.
InitChat ==
    /\ InitRest
    /\ InitUpVars
    /\ backend \in Backends

NextCtrl == vr_update_controllers

SpecCtrl == Init /\ [][NextCtrl]_vars

NextMenu == vr_update_controllers_menu

SpecMenu == Init /\ [][NextMenu]_vars

NextFrame ==
    \/ vr_create_overlays
    \/ imgui_render_hud
    \/ imgui_render_dashboard
    \/ vr_keyboard_render

SpecFrame == Init /\ [][NextFrame]_vars

NextKeyboard == vr_keyboard_render_at

SpecKeyboard == Init /\ [][NextKeyboard]_vars

NextMailbox ==
    \/ imgui_update_dashboard_state
    \/ imgui_update_overlay_settings
    \/ imgui_get_dashboard_state
    \/ render_settings_window

SpecMailbox == Init /\ [][NextMailbox]_vars

\* The host drives the mailbox from two threads, with or without a mutex
\* around the two calls.
InitThreads ==
    /\ InitCtrlVars
    /\ InitFrameVars
    /\ InitMailboxData
    /\ mutex \in BOOLEAN
    /\ InitChatVars
    /\ InitLaserVars
    /\ InitLifeVars
    /\ InitPointerVars
    /\ InitUpVars
    /\ backend = "gl"

NextThreads ==
    \/ update_enter
    \/ update_store
    \/ update_flag
    \/ poll_test
    \/ poll_copy
    \/ poll_clear

SpecThreads == InitThreads /\ [][NextThreads]_vars

NextChat ==
    \/ stub_vr_init_overlay
    \/ imgui_update_chat_state
    \/ render_chat_window
    \/ imgui_get_sent_message
    \/ imgui_get_input_focused

SpecChat == InitChat /\ [][NextChat]_vars

\* After initialisation succeeded and vr_create_overlays returned true.
InitCreated ==
    /\ InitCtrlVars
    /\ InitMailboxVars
    /\ InitChatVars
    /\ InitLaserVars
    /\ InitPointerVars
    /\ InitUpVars
    /\ g_handle = HudHandle
    /\ g_dashboard_handle = DashboardHandle
    /\ g_current_tex = 0
    /\ g_dashboard_current_tex = 0
    /\ g_keyboard_current_tex = 0
    /\ rt_texture = [s \in Surfaces |-> NoTarget]
    /\ used = [s \in Surfaces |-> <<>>]
    /\ last_verdict = [s \in Surfaces |-> "none"]
    /\ last_ret = [s \in Surfaces |-> NoReturn]
    /\ hover = NoHover
    /\ kb_handle = OverlayHandleInvalid
    /\ rt_overlay = [h \in Overlays |-> IF h = HudHandle THEN "shown" ELSE "hidden"]
    /\ rt_misuse = NoMisuse
    /\ life_last = NoLifeCall
    /\ create_last = NoCreate
    /\ backend = "gl"

NextLaser ==
    \/ vr_update_controllers_at_rest
    \/ vr_test_laser_intersection_main
    \/ imgui_update_laser_state
    \/ imgui_render_hud

SpecLaser == InitCreated /\ [][NextLaser]_vars

\* The process has not died of undefined behaviour and has not shut the
\* runtime down.
Running == fault = "none" /\ boot["vr"] # "down"

\* The runtime is up and the UI is not yet set up.
InitTargets ==
    /\ InitRest
    /\ InitRuntimeUp
    /\ backend = "gl"

\* The host sets up the UI and then renders; a dead process takes no step.
NextTargets ==
    \/ (Running /\ imgui_init)
    \/ (Running /\ vr_keyboard_init_rendering)
    \/ (Running /\ vr_create_overlays)
    \/ (Running /\ boot["imgui"] # "no" /\ imgui_render_hud)
    \/ (Running /\ boot["imgui"] # "no" /\ imgui_render_dashboard)
    \/ (Running /\ boot["keyboard"] # "no" /\ vr_keyboard_render)

SpecTargets == InitTargets /\ [][NextTargets]_vars

\* Straight after static initialisation.
InitStatic ==
    /\ InitRest
    /\ InitBootVars
    /\ backend = "gl"

\* The host tries vr_init_overlay and then, whatever it returned, ticks,
\* polls and pumps until it shuts down; a dead process takes no step.
NextInit ==
    \/ (Running /\ vr_init_overlay)
    \/ (Running /\ boot["vr"] # "no" /\ vr_update_controllers_at_rest)
    \/ (Running /\ boot["vr"] # "no" /\ vr_overlay_poll)
    \/ (Running /\ boot["vr"] # "no" /\ vr_dashboard_poll)
    \/ (Running /\ boot["vr"] # "no" /\ vr_process_dashboard_events)
    \/ (Running /\ boot["vr"] # "no" /\ vr_shutdown)

SpecInit == InitStatic /\ [][NextInit]_vars

\* The host creates the overlays, shows, hides and destroys them, renders
\* the HUD and the dashboard, and shuts down.
NextLifecycle ==
    \/ (Running /\ vr_create_overlays)
    \/ (Running /\ vr_show_overlay)
    \/ (Running /\ vr_hide_overlay)
    \/ (Running /\ vr_destroy_overlay)
    \/ (Running /\ imgui_render_hud)
    \/ (Running /\ imgui_render_dashboard)
    \/ (Running /\ vr_shutdown)

SpecLifecycle == Init /\ [][NextLifecycle]_vars

\* The host creates the overlays through vr_create_overlay, shows, hides and
\* destroys them, and shuts down.
NextCreate ==
    \/ (Running /\ vr_create_overlay)
    \/ (Running /\ vr_show_overlay)
    \/ (Running /\ vr_hide_overlay)
    \/ (Running /\ vr_destroy_overlay)
    \/ (Running /\ vr_shutdown)

SpecCreate == Init /\ [][NextCreate]_vars

\* The runtime queues dashboard input; the host injects a pointer, pumps
\* and renders the dashboard.
NextPointer ==
    \/ rt_dashboard_input
    \/ imgui_inject_mouse_pos
    \/ imgui_inject_mouse_button
    \/ vr_process_dashboard_events
    \/ imgui_render_dashboard

\* The host's thread runs one dashboard pass after another while the runtime
\* queues dashboard input whenever it likes.  A thread inside the loop is
\* scheduled again and again: weak fairness of the loop's step.
NextDrain ==
    \/ rt_dashboard_input
    \/ drain_enter
    \/ drain_poll

SpecDrain == InitCreated /\ [][NextDrain]_vars /\ WF_vars(drain_poll)

SpecPointer == InitCreated /\ [][NextPointer]_vars

\* The same with the HUD pass in place of the dashboard's.
NextPointerHud ==
    \/ rt_dashboard_input
    \/ imgui_inject_mouse_pos
    \/ imgui_inject_mouse_button
    \/ vr_process_dashboard_events
    \/ imgui_render_hud

SpecPointerHud == InitCreated /\ [][NextPointerHud]_vars

----------------------------------------------------------------------------
(* Properties.                                                             *)

\* Arguments tried at the slot-indexed entry points: both slots and one
\* value out of range on each side.
SlotArgs == {-1, 0, 1, 2}

HandleArgs == {OverlayHandleInvalid, HudHandle}

\* C1: on every surface the k-th render pass that binds a target binds
\* index (k-1) mod 2 -- 0,1,0,1,... from 0 -- whether the compositor accepted
\* or refused the earlier submissions (a refusal for an invalid handle
\* included).
C1_IndexAlternates ==
    \A s \in Surfaces : \A k \in 1..Len(used[s]) : used[s][k] = (k - 1) % 2

\* C1 witness: three HUD passes, among them an accepted and a refused one.
C1_Witness ==
    /\ Len(used["HUD"]) >= 3
    /\ last_verdict["HUD"] = "rejected"
    /\ rt_texture["HUD"] # NoTarget

\* C2: in no slot are trigger-pressed and trigger-released both true.
C2_NotBothEdges ==
    \A s \in Slots :
        ~(vr_get_controller_trigger_pressed(s) /\ vr_get_controller_trigger_released(s))

\* C2 witness: a tick has raised the release pulse of a slot.
C2_Witness ==
    \E s \in Slots : vr_get_controller_trigger_released(s)

\* C3 (as claimed): after every tick, trigger-pressed of a slot is true
\* exactly when its thresholded trigger was false at the end of the preceding
\* tick and is true now, and trigger-released exactly on the opposite
\* transition.
C3_PulseMatchesTransition ==
    \A s \in Slots :
        LET was == IsPressed(last_tick[s])
            is  == IsPressed(g_controllers[s].state)
        IN /\ vr_get_controller_trigger_pressed(s) = (~was /\ is)
           /\ vr_get_controller_trigger_released(s) = (was /\ ~is)

\* C4 (as claimed): a slot with connected = false yields the no-data
\* default from every query: trigger value 0, no pressed / released / menu
\* pulse, no laser hit.
C4_DisconnectedDefaults ==
    \A s \in Slots :
        ~g_controllers[s].connected =>
            /\ vr_get_controller_trigger_value(s) = 0
            /\ ~vr_get_controller_trigger_pressed(s)
            /\ ~vr_get_controller_trigger_released(s)
            /\ ~vr_get_controller_menu_pressed(s)
            /\ \A h \in HandleArgs, rt \in BOOLEAN :
                   ~vr_test_laser_intersection(s, h, rt).hit

\* C5 (as claimed): whenever a render pass may start on a surface, the
\* target it is about to bind is not the one the compositor accepted last
\* for that surface.
C5_NeverWritesAcceptedTarget ==
    \A s \in Surfaces : WriteIndex(s) # rt_texture[s]

\* C5 (amended): the target about to be bound differs from the one the
\* compositor accepted last for the surface whenever the surface's latest
\* submission was accepted.
C5_WritesOtherTargetAfterAccept ==
    \A s \in Surfaces :
        last_verdict[s] = "accepted" => WriteIndex(s) # rt_texture[s]

\* C5 witness: a second HUD pass has just been accepted.
C5_Witness ==
    /\ Len(used["HUD"]) >= 2
    /\ last_verdict["HUD"] = "accepted"

\* C10: the laser query answers no-hit with the FLT_MAX distance and does
\* not ask the runtime when the slot is out of range, the controller is
\* disconnected or has no pose, or the handle is invalid; otherwise it asks
\* the runtime, and it reports a hit only if the runtime found one.
C10_LaserGuards ==
    \A i \in SlotArgs, h \in HandleArgs, rt \in BOOLEAN :
        LET r == vr_test_laser_intersection(i, h, rt)
            refused == \/ i \notin Slots
                       \/ ~g_controllers[i].connected
                       \/ ~g_controllers[i].has_pose
                       \/ h = OverlayHandleInvalid
        IN /\ refused => (r = NoHit)
           /\ ~refused => r.invoked
           /\ r.hit => (r.invoked /\ rt)

\* C10 witness: a connected slot with a pose, for which the runtime is asked
\* and its hit is reported.
C10_Witness ==
    \E s \in Slots :
        /\ g_controllers[s].connected
        /\ g_controllers[s].has_pose
        /\ vr_test_laser_intersection(s, HudHandle, TRUE).hit

\* C6: polling the dashboard state is a destructive single read.  The poll
\* with a valid output pointer that directly follows an update returns true
\* with the state the update stored; a poll with a valid output pointer that
\* directly follows one that returned true returns false; and a poll that
\* returns false leaves the stored state and the dirty flag as they were.
C6_DestructiveSingleRead ==
    [][mb_last'.op = "poll" =>
         /\ (mb_last'.valid /\ mb_last.op = "update" /\ mb_last.valid)
               => (mb_last'.ret /\ mb_last'.val = mb_last.val)
         /\ (mb_last'.valid /\ mb_last.op = "poll" /\ mb_last.ret)
               => ~mb_last'.ret
         /\ ~mb_last'.ret
               => UNCHANGED <<g_dashboard_state, g_dashboard_state_changed>>]_vars

\* An update, then a poll that returned true, then a poll that returned false.
C6_Witness ==
    /\ mb_last.op = "poll" /\ mb_last.valid /\ ~mb_last.ret
    /\ mb_prev.op = "poll" /\ mb_prev.valid /\ mb_prev.ret
    /\ ~g_dashboard_state_changed

\* C7: the mailbox holds at most one pending value.  A poll with a valid
\* output pointer made after n >= 1 state changes (host updates, tab
\* selections, Apply presses) since the previous such poll returns true with
\* the stored state as the last of them left it; made after none, it
\* returns false.
C7_ChangesCollapse ==
    (mb_last.op = "poll" /\ mb_last.valid) =>
        /\ mb_last.n >= 1 => (mb_last.ret /\ mb_last.val = <<last_change>>)
        /\ mb_last.n = 0 => ~mb_last.ret

\* Two or more changes, the last a tab selection, answered by one poll.
C7_Witness ==
    /\ mb_last.op = "poll" /\ mb_last.valid /\ mb_last.ret
    /\ mb_last.n >= 2
    /\ mb_prev.op = "select"

\* C8, as stated: in every backend, after imgui_update_chat_state is given a
\* batch (an empty one, or a non-null pointer to its messages) the stored
\* transcript equals the batch.
C8_TotalReplaceEveryBackend ==
    (chat_last.op = "update" /\ (chat_last.valid \/ chat_last.batch = <<>>))
        => g_chat_messages = chat_last.batch

\* C8, amended: in the Direct3D and OpenGL backends the stored transcript
\* equals the batch after the call, whatever was stored before; in the stub
\* backend the call leaves the stored transcript as it was.
C8_TotalReplaceOutsideStub ==
    [][chat_last'.op = "update" =>
         IF backend = "stub"
         THEN g_chat_messages' = g_chat_messages
         ELSE (chat_last'.valid \/ chat_last'.batch = <<>>)
                 => g_chat_messages' = chat_last'.batch]_vars

\* An empty batch has cleared a transcript that held messages.
C8_Witness ==
    /\ backend = "gl"
    /\ chat_last.op = "update" /\ chat_last.batch = <<>>
    /\ chat_last.had > 0
    /\ g_chat_messages = <<>>

\* C9, as stated: a poll for the sent message returns true only if a
\* non-empty submit happened since the last poll that returned true, and
\* then with the text that was submitted; with a valid buffer it returns
\* true whenever such a submit is pending, and false otherwise.
C9_OneShotWithText ==
    chat_last.op = "poll" =>
        /\ chat_last.ret => (/\ chat_last.n >= 1
                          /\ chat_last.text = Copied(submitted, chat_last.cap))
        /\ (chat_last.valid /\ chat_last.n >= 1) => chat_last.ret
        /\ chat_last.n = 0 => ~chat_last.ret

\* C11: with a slot index outside {0, 1} every slot-indexed operation gives
\* its safe default -- not connected, trigger value 0, no pressed, released
\* or menu edge, no haptic call, no laser hit and no intersection query --
\* and the laser-state update stores nothing.
C11_OutOfRangeSlotIsInert ==
    \A i \in SlotArgs \ Slots :
        /\ vr_get_controller_connected(i) = FALSE
        /\ vr_get_controller_trigger_value(i) = 0
        /\ vr_get_controller_trigger_pressed(i) = FALSE
        /\ vr_get_controller_trigger_released(i) = FALSE
        /\ vr_get_controller_menu_pressed(i) = FALSE
        /\ vr_trigger_haptic_pulse(i) = NoPulse
        /\ \A h \in HandleArgs, rt_hit \in BOOLEAN :
               vr_test_laser_intersection(i, h, rt_hit) = NoHit
        /\ \A hit \in BOOLEAN, pt \in DecalPoints :
               LaserStateUpdated(g_laser_states, i, hit, pt) = g_laser_states

\* Both controllers are connected and tracked, the overlay exists and a
\* laser state is active: every in-range call would answer otherwise.
C11_Witness ==
    /\ \A s \in Slots : vr_trigger_haptic_pulse(s).issued
    /\ vr_test_laser_intersection(0, g_handle, TRUE).hit
    /\ g_laser_states[1].active
    /\ ~g_laser_states[0].active

\* C19, as stated: a HUD pass draws the laser decal of slot i only if that
\* controller is connected and a laser query for it reported a hit since the
\* latest tick; a decal never persists from an earlier tick.
C19_DecalOnlyWithHitThisTick ==
    \A s \in Slots :
        decals[s] => (vr_get_controller_connected(s) /\ reported[s])

\* C20, as stated: once the latest tick found no connected device for a slot
\* (reported not connected, or not enumerated as a controller), the slot
\* reads as not connected and a haptic request for it issues no runtime call.
C20_DisconnectStopsHaptics ==
    \A s \in Slots :
        ~present[s] =>
            /\ ~vr_get_controller_connected(s)
            /\ ~vr_trigger_haptic_pulse(s).issued

\* The initialisation call that creates the render targets of surface s.
InitOf(s) == IF s = "Keyboard" THEN "keyboard" ELSE "imgui"

\* C12, as stated: when render-target creation failed during the
\* initialisation of a surface, no later render pass of that surface binds a
\* target or hands a texture to the compositor.
C12_FailedInitNeverRenders ==
    \A s \in Surfaces :
        boot[InitOf(s)] = "failed" =>
            /\ used[s] = <<>>
            /\ last_verdict[s] = "none"

\* C13, as stated: after vr_init_overlay returned false, no tick, event
\* poll, dashboard pump or shutdown uses an unset runtime interface, no
\* haptic request reaches the runtime and no laser query asks it anything.
C13_FailedInitIsInert ==
    boot["vr"] = "failed" =>
        /\ fault # "null_interface"
        /\ \A s \in Slots :
               /\ ~vr_trigger_haptic_pulse(s).issued
               /\ \A h \in HandleArgs :
                      ~vr_test_laser_intersection(s, h, TRUE).invoked

\* C14: vr_destroy_overlay, vr_show_overlay and vr_hide_overlay called with
\* the invalid handle 0 make no runtime call and change no overlay.
C14_InvalidHandleIsNoOp ==
    (life_last.op # "none" /\ life_last.handle = OverlayHandleInvalid) =>
        /\ ~life_last.called
        /\ ~life_last.changed

\* The HUD overlay is shown, and the latest call was a destroy with the
\* invalid handle.
C14_Witness ==
    /\ life_last.op = "destroy"
    /\ life_last.handle = OverlayHandleInvalid
    /\ rt_overlay[HudHandle] = "shown"
    /\ g_handle = HudHandle

\* C15, as stated: the runtime never receives a show, hide, texture
\* submission or destroy that names an overlay it has already destroyed.
C15_DestroyedIsTerminal == rt_misuse = NoMisuse

\* Positions in a drained queue of the mouse moves, and of the downs and
\* ups of the left button.
MoveIdx(evs) == {i \in 1..Len(evs) : evs[i].type = "MouseMove"}

LeftIdx(evs) ==
    {i \in 1..Len(evs) : /\ evs[i].type \in {"MouseButtonDown", "MouseButtonUp"}
                         /\ evs[i].button = "Left"}

Latest(S) == CHOOSE m \in S : \A n \in S : n <= m

\* The pointer the claim expects after the queue evs was drained onto the
\* pointer ptr: the position of the last mouse move, the button state of the
\* last left-button event, and what was there before where there is none.
ExpectedPointer(ptr, evs) ==
    [x |-> IF MoveIdx(evs) = {} THEN ptr.x ELSE evs[Latest(MoveIdx(evs))].x,
     y |-> IF MoveIdx(evs) = {} THEN ptr.y ELSE evs[Latest(MoveIdx(evs))].y,
     down |-> IF LeftIdx(evs) = {} THEN ptr.down
              ELSE evs[Latest(LeftIdx(evs))].type = "MouseButtonDown"]

\* C16: a dashboard render pass first drains the dashboard overlay's event
\* queue completely, and the pointer it feeds to the frame is the in-order
\* fold of the drained events: position of the last mouse move, button-down
\* of the last left-button down or up; other buttons and event types change
\* nothing.
C16_RenderDrainsAndFolds ==
    ptr_last.op = "render_dashboard" =>
        /\ ptr_last.left = <<>>
        /\ ptr_last.after = ExpectedPointer(ptr_last.before, ptr_last.queue)

\* A dashboard pass drained two different mouse moves, or a left-button down
\* followed by a right-button down, onto a pointer the host had injected.
C16_Witness ==
    /\ ptr_last.op = "render_dashboard"
    /\ Len(ptr_last.queue) = 2
    /\ ptr_last.before.x = 5
    /\ \/ /\ ptr_last.queue[1].type = "MouseMove"
          /\ ptr_last.queue[2].type = "MouseMove"
          /\ ptr_last.queue[1] # ptr_last.queue[2]
       \/ /\ ptr_last.queue[1].button = "Left"
          /\ ptr_last.queue[2].button = "Right"

\* C17, as stated: the position the HUD pass feeds to its frame was never
\* written by a dashboard input event, and the position the dashboard pass
\* feeds to its frame was written by the dashboard event pump only.
C17_PointersIndependent ==
    /\ ptr_last.op = "render_hud" => pos_src # "dashboard"
    /\ ptr_last.op = "render_dashboard" => pos_src # "inject"

\* C18: imgui_inject_mouse_button(button, down) sets button-down to down
\* when button is 0 and otherwise changes neither button-down nor the
\* position; imgui_inject_mouse_pos changes the position only.
C18_InjectionTouchesItsFieldOnly ==
    /\ (ptr_last.op = "inject_button" /\ ptr_last.button = 0) =>
           ptr_last.after = [ptr_last.before EXCEPT !.down = ptr_last.down]
    /\ (ptr_last.op = "inject_button" /\ ptr_last.button # 0) =>
           ptr_last.after = ptr_last.before
    /\ ptr_last.op = "inject_pos" =>
           ptr_last.after.down = ptr_last.before.down

\* Button 1 was injected as down while the left button was up, on a pointer
\* that had been moved.
C18_Witness ==
    /\ ptr_last.op = "inject_button"
    /\ ptr_last.button = 1
    /\ ptr_last.down
    /\ ~ptr_last.before.down
    /\ ptr_last.before.x # 0

\* C21, as stated: after every tick, menuPressed of a slot is true only if
\* the slot's menu bit was clear at the end of the preceding tick and is set
\* now; in a tick without that transition (a tick that did not refresh the
\* slot included) it is false.
C21_MenuPulseOnlyOnTransition ==
    \A s \in Slots :
        vr_get_controller_menu_pressed(s) =>
            (~last_tick[s].menu /\ g_controllers[s].state.menu)

\* C22, as stated: the render pass that sees a non-empty submit sets the
\* message-ready flag and leaves the input box empty, and a poll that returns
\* true carries the text the box held at submit time.
C22_SubmitClearsBoxAndFixesText ==
    /\ chat_last.op = "submit" => (g_message_sent /\ g_input_buffer = "")
    /\ (chat_last.op = "poll" /\ chat_last.ret) =>
          chat_last.text = Copied(submitted, chat_last.cap)

\* C29: a pass in which Enter is pressed while the input box is empty leaves
\* the message-ready flag as it was, and a poll returns true only if a
\* non-empty submit was pending when it began.
C29_EmptySubmitKeepsFlag ==
    /\ [][(/\ chat_last'.op \in {"frame", "submit"}
           /\ chat_last'.ret
           /\ chat_last'.text = "")
              => g_message_sent' = g_message_sent]_vars
    /\ []((chat_last.op = "poll" /\ chat_last.ret) => chat_last.n >= 1)

\* Enter on the empty box has left the flag of an earlier submit pending.
C29_Witness ==
    /\ chat_last.op = "frame" /\ chat_last.ret /\ chat_last.text = ""
    /\ g_message_sent
    /\ submits = 1

\* Whether the focus history h (the focus at the latest read, then in each
\* pass since) holds a pass that found the box focused after one that did not.
HasGain(h) == \E i \in 2..Len(h) : h[i] /\ ~h[i - 1]

\* C30: the input-just-focused flag is set only if, since the latest read,
\* some pass found the box focused that was not focused in the pass before;
\* a read returns the flag's value and clears it, so it returns true only
\* for a focus gain no earlier read has reported.
C30_FocusFlagIsEdgeMailbox ==
    /\ g_input_just_focused => HasGain(passes)
    /\ focus_last.op = "read" =>
          /\ focus_last.ret = focus_last.flag
          /\ focus_last.ret => HasGain(focus_last.passes)
          /\ ~g_input_just_focused

\* A read has returned true and cleared the flag while the box is still
\* focused.
C30_Witness ==
    /\ focus_last.op = "read" /\ focus_last.ret
    /\ g_input_focused
    /\ ~g_input_just_focused

\* C23, as stated: one loop iteration of the tick for a device with the
\* left-hand role changes slot 0 only, for a device with the right-hand role
\* slot 1 only, and for a device with any other role changes no slot.
C23_RoleSelectsSlot ==
    \A i \in 0..(MaxDevices - 1), r \in DeviceReports(TriggerInputs) :
        LET after == UpdateDevice(g_controllers, i, r)
        IN  /\ r.role = "LeftHand" => after[1] = g_controllers[1]
            /\ r.role = "RightHand" => after[0] = g_controllers[0]
            /\ r.role \notin {"LeftHand", "RightHand"} => after = g_controllers

\* C26, as stated: after every tick, each slot's stored previous state is
\* the current state the slot held at the end of the preceding tick.
C26_SnapshotAdvancesOncePerTick ==
    \A s \in Slots : g_controllers[s].prev_state = last_tick[s]

\* Whether the point p lies in the closed box b.
InBox(b, p) ==
    /\ b.x0 <= p.x /\ p.x <= b.x0 + b.w
    /\ b.y0 <= p.y /\ p.y <= b.y0 + b.h

\* C24: the keys a keyboard pass highlights are exactly the keys whose
\* bounding box, borders and corners included, holds the pointer; the
\* classification depends on the pointer alone.
C24_HoverUsesInclusiveBounds ==
    hover.keys = {b.key : b \in {k \in KeyBoxes : InBox(k, hover.at)}}

\* The pointer on the top right corner of the first key highlights it.
C24_Witness ==
    /\ hover.at = [x |-> 45, y |-> 80]
    /\ hover.keys = {"1"}
    /\ last_ret["Keyboard"].returned

C27_NoUpdateLostUnderMutex ==
    (mutex /\ update_pc = "idle" /\ updates > 0) =>
        /\ stored_seq = updates
        /\ g_dashboard_state_changed \/ polled_seq = updates

\* Under the mutex: a poll returned the first update's state, a second update
\* followed, and its notification is pending.
C27_Witness ==
    /\ mutex
    /\ update_pc = "idle" /\ poll_pc = "idle"
    /\ updates = 2
    /\ polled_seq = 1
    /\ g_dashboard_state_changed /\ stored_seq = 2

\* Without the mutex: a poll that returned the first update's state has
\* cleared the flag the second update had set.
C27_RaceLosesUpdate ==
    /\ ~mutex
    /\ update_pc = "idle" /\ poll_pc = "idle"
    /\ updates = 2 /\ stored_seq = 2
    /\ polled_seq = 1
    /\ ~g_dashboard_state_changed

\* C28, as stated: every dashboard pass returns: a pass that has reached the
\* event loop leaves it, also while the runtime goes on queueing dashboard
\* events.
C28_DrainLoopTerminates == (drain_pc = "polling") ~> (drain_pc = "idle")

C32_InvalidPollKeepsMessage ==
    [][/\ (chat_last'.op = "poll" /\ ~chat_last'.valid) =>
             /\ ~chat_last'.ret
             /\ g_message_sent' = g_message_sent
             /\ g_input_buffer' = g_input_buffer
       /\ (g_message_sent /\ ~g_message_sent') =>
             /\ chat_last'.op = "poll" /\ chat_last'.valid /\ chat_last'.ret
             /\ Len(chat_last'.text) = Min(Len(g_input_buffer), chat_last'.cap - 1)
             /\ chat_last'.text = SubSeq(g_input_buffer, 1, Len(chat_last'.text))
             /\ Len(chat_last'.text) + 1 <= chat_last'.cap]_vars

\* A poll with capacity 2 has taken the first byte of "ab".
C32_Witness ==
    /\ chat_last.op = "poll" /\ chat_last.ret
    /\ chat_last.cap = 2
    /\ chat_last.text = "a"
    /\ submitted = "ab"
    /\ ~g_message_sent

\* A poll without a usable buffer has returned false with the message still
\* pending.
C32_Refused ==
    /\ chat_last.op = "poll" /\ ~chat_last.valid /\ ~chat_last.ret
    /\ g_message_sent
    /\ g_input_buffer = "ab"

\* Overlays the runtime holds: created and not destroyed.
Alive(h) == rt_overlay[h] \in {"shown", "hidden"}

\* C33, as stated: whenever vr_create_overlays has returned false, no overlay
\* created by that call is alive in the runtime and the HUD handle is the
\* invalid handle; whenever it has returned true, the HUD handle and the
\* Dashboard handle are both valid.
C33_CreateIsAllOrNothing ==
    create_last.called =>
        IF create_last.ret
        THEN /\ g_handle # OverlayHandleInvalid
             /\ g_dashboard_handle # OverlayHandleInvalid
        ELSE /\ \A h \in create_last.made : ~Alive(h)
             /\ g_handle = OverlayHandleInvalid

\* What the code does give: a true return leaves both handles valid, a false
\* return leaves none of the call's overlays alive, and a false return after
\* the HUD overlay was created leaves the HUD handle invalid.
C33_CleanupAfterDashboardFailure ==
    create_last.called =>
        /\ create_last.ret => (/\ g_handle = HudHandle
                               /\ g_dashboard_handle = DashboardHandle)
        /\ ~create_last.ret => \A h \in create_last.made : ~Alive(h)
        /\ (~create_last.ret /\ create_last.made # {}) =>
               g_handle = OverlayHandleInvalid

\* A call has returned false before creating anything, with the HUD handle of
\* an earlier call still in place.
C33_StaleHudHandle ==
    /\ create_last.called /\ ~create_last.ret
    /\ create_last.made = {}
    /\ g_handle = HudHandle

\* C34: every write index is always 0 or 1, and a render of one surface
\* changes no write index but that surface's: a step changes the write index
\* of a surface only if it is a pass on that surface, and a pass on a surface
\* leaves the write indices of the two other surfaces as they were.
C34_WriteIndicesIndependent ==
    /\ [](\A s \in Surfaces : WriteIndex(s) \in 0..(NumTargets - 1))
    /\ [][\A s \in Surfaces :
            /\ WriteIndex(s)' # WriteIndex(s) => used'[s] # used[s]
            /\ used'[s] # used[s] =>
                  \A t \in Surfaces \ {s} : WriteIndex(t)' = WriteIndex(t)]_vars

\* The three surfaces have been rendered different numbers of times and
\* their write indices differ.
C34_Witness ==
    /\ Len(used["HUD"]) = 1 /\ g_current_tex = 1
    /\ Len(used["Dashboard"]) = 2 /\ g_dashboard_current_tex = 0
    /\ Len(used["Keyboard"]) = 3 /\ g_keyboard_current_tex = 1

\* C35: a pass that reaches the compositor uses one slot throughout: the
\* target it binds and clears, the target it draws into and the texture it
\* hands to the compositor are those of the write index the surface had when
\* the pass began, an accepted texture is that slot's, and the write index
\* moves to the other slot only with the pass, after the hand-over.
C35_OneSlotPerPass ==
    [][\A s \in Surfaces :
          (used'[s] # used[s] /\ last_ret'[s].returned) =>
              /\ used'[s] = Append(used[s], WriteIndex(s))
              /\ last_ret'[s].bound = WriteIndex(s)
              /\ last_ret'[s].drawn = WriteIndex(s)
              /\ last_ret'[s].handed = WriteIndex(s)
              /\ last_ret'[s].verdict = "accepted" => rt_texture'[s] = WriteIndex(s)
              /\ WriteIndex(s)' = (WriteIndex(s) + 1) % NumTargets]_vars

\* A keyboard pass that began with write index 1 has drawn into slot 1 and
\* handed over slot 1 while the compositor still shows the HUD's slot 0.
C35_Witness ==
    /\ last_ret["Keyboard"].returned
    /\ last_ret["Keyboard"].bound = 1 /\ last_ret["Keyboard"].handed = 1
    /\ rt_texture["Keyboard"] = 1
    /\ g_keyboard_current_tex = 0
    /\ last_ret["HUD"].handed = 0 /\ rt_texture["HUD"] = 0

\* Whether the closed boxes a and b have a point in common.
Overlap(a, b) ==
    /\ a.x0 <= b.x0 + b.w /\ b.x0 <= a.x0 + a.w
    /\ a.y0 <= b.y0 + b.h /\ b.y0 <= a.y0 + a.h

\* C36: a keyboard pass highlights at most one key whatever the pointer, and
\* no two keys' boxes, borders included, have a point in common.
C36_AtMostOneKeyHovered ==
    /\ Cardinality(hover.keys) <= 1
    /\ \A a \in KeyBoxes, b \in KeyBoxes : a.key # b.key => ~Overlap(a, b)

\* The pointer at the corner of Q that faces the corner of 2 across the gap
\* between the rows highlights Q alone.
C36_Witness ==
    /\ hover.at = [x |-> 47, y |-> 117]
    /\ hover.keys = {"Q"}
    /\ last_ret["Keyboard"].returned

\* The records a pass of render_settings_window leaves in the history.
RenderOps == {"frame", "back", "select", "apply", "edit"}

\* C37, as stated: after a dashboard render the tab the settings window
\* shows is the current_tab of the stored DashboardState, whoever wrote it
\* last, and a poll that follows the user's selection of a tab returns a
\* state with that tab.
C37_DisplayedTabIsStateTab ==
    /\ mb_last.op \in RenderOps => current_tab = g_dashboard_state.current_tab
    /\ (mb_last.op = "poll" /\ mb_last.ret /\ mb_prev.op = "select") =>
           mb_last.val[1].current_tab = current_tab

\* What the code does give: a poll that follows the user's selection of a
\* tab returns a state with that tab, and the render in which the user
\* selects a tab leaves the shown tab and the stored tab equal.
C37_SelectionReachesPoll ==
    /\ mb_last.op = "select" => current_tab = g_dashboard_state.current_tab
    /\ (mb_last.op = "poll" /\ mb_last.ret /\ mb_prev.op = "select") =>
           mb_last.val[1].current_tab = current_tab

\* The host stored the Stream Overlay tab and the settings window, rendered
\* after that, still shows the first tab.
C37_HostTabNotShown ==
    /\ mb_prev.op = "update" /\ mb_prev.valid
    /\ mb_prev.val[1].current_tab = StreamOverlayTab
    /\ mb_last.op = "frame"
    /\ g_dashboard_state.current_tab = StreamOverlayTab
    /\ current_tab = 0

\* C38: a host update with a state s stores s and sets the changed flag, so
\* that a later poll with no user input in between returns true with s; an
\* update of the overlay settings leaves the flag and the stored state as
\* they were; and a poll with a valid pointer returns true exactly when the
\* flag is set, then with the stored state, whoever stored it.
C38_HostUpdateSetsFlag ==
    /\ [][(mb_last'.op = "update" /\ mb_last'.valid) =>
              /\ g_dashboard_state_changed'
              /\ g_dashboard_state' = mb_last'.val[1]]_vars
    /\ [][mb_last'.op = "settings" =>
              /\ g_dashboard_state_changed' = g_dashboard_state_changed
              /\ g_dashboard_state' = g_dashboard_state]_vars
    /\ [][(mb_last'.op = "poll" /\ mb_last'.valid) =>
              /\ mb_last'.ret = g_dashboard_state_changed
              /\ mb_last'.ret => mb_last'.val = <<g_dashboard_state>>]_vars
    /\ []((/\ mb_last.op = "poll" /\ mb_last.valid
           /\ mb_prev.op = "update" /\ mb_prev.valid)
              => (mb_last.ret /\ mb_last.val = mb_prev.val))

\* The host updated the settings and the state, and its poll returned the
\* state it had just stored; the user never touched the settings window.
C38_Witness ==
    /\ g_overlay_settings = "host"
    /\ mb_prev.op = "update" /\ mb_prev.valid
    /\ mb_prev.val = <<[show_settings |-> TRUE, current_tab |-> StreamOverlayTab]>>
    /\ mb_last.op = "poll" /\ mb_last.ret
    /\ mb_last.val = mb_prev.val
    /\ show_tabs /\ current_tab = 0

\* C39, as stated: every HUD pass that returns lays its UI out with the
\* HUD's own size and every dashboard pass that returns with the size passed
\* to it, however the passes are interleaved.
C39_EachSurfaceOwnSize ==
    [][/\ (used'["HUD"] # used["HUD"] /\ last_ret'["HUD"].returned) =>
             HudLayout(display_size, HudSize) = HudSize
       /\ (used'["Dashboard"] # used["Dashboard"] /\ last_ret'["Dashboard"].returned) =>
             display_size' = DashboardSize]_vars

\* What the code does give: a dashboard pass lays out with the size passed
\* to it, and a HUD pass with the size the shared UI context was left with,
\* which is the HUD's until the first dashboard pass and the dashboard's
\* from then on.
C39_HudUsesSizeLeftBehind ==
    /\ [][(used'["Dashboard"] # used["Dashboard"] /\ last_ret'["Dashboard"].returned) =>
              display_size' = DashboardSize]_vars
    /\ [][used'["HUD"] # used["HUD"] => display_size' = display_size]_vars
    /\ [](display_size = (IF last_ret["Dashboard"].returned THEN DashboardSize
                                                             ELSE HudSize))

\* A HUD pass has returned after a dashboard pass, with the UI context still
\* at the dashboard's size.
C39_HudLaidOutAtDashboardSize ==
    /\ last_ret["Dashboard"].returned
    /\ last_ret["HUD"].returned
    /\ Len(used["HUD"]) = 2 /\ Len(used["Dashboard"]) = 1
    /\ display_size = DashboardSize

====
